---------------------------- MODULE Spec2Model ----------------------------
(***************************************************************************)
(* A model of the scholarship summarisation pipeline:                      *)
(*   extractor_becas.py        (Fact Extractor)                            *)
(*   generador_resumenes.py    (Summary Generator)                         *)
(*   evaluador_resumenes.py    (standard evaluator)                        *)
(*   evaluador_resumenes_v1.py (NLGPerformanceAudit)                       *)
(*   hallucination_evaluator.py                                            *)
(*                                                                         *)
(* A Python str is a sequence of symbols.  A symbol is a one-character     *)
(* string for every character the code looks at individually (digits,      *)
(* '.', ',', ':', '*', blanks, newline); a run of letters that the code    *)
(* only ever treats as a whole (a word such as "euros") is one symbol.     *)
(***************************************************************************)
EXTENDS Integers, Sequences, FiniteSets, TLC

VARIABLES
    \* --- pure text functions (evaluador_resumenes.py) ---
    text_in,        \* the argument: [none |-> BOOLEAN, s |-> str]
    text_out,       \* [fn |-> name of the function applied, ...its result]
    \* --- the files the evaluators read ---
    structured_data,    \* becas_estructuradas.json: a sequence of Document Records
    generated_results,  \* resumenes_generados.json: <<[year, models: <<[model, result]>>]>>
    has_nlp,            \* the optional scoring libraries are installed
    data_exists,        \* Path("becas_estructuradas.json").exists()
    gen_exists,         \* Path("resumenes_generados.json").exists()
    \* --- evaluador_resumenes.py ---
    std_status,         \* "idle", "missing_input" (line 39-41) or "done"
    all_evals,          \* all_evals of the latest run
    detail_csv,         \* evaluacion_detallada.csv, <<>> while it does not exist
    comparison_csv,     \* comparativa_modelos.csv, <<>> while it does not exist
    \* --- evaluador_resumenes_v1.py ---
    v1_status,          \* "unbuilt", "idle", "missing_input", "crashed" (an exception
                        \* left the script), "done" or "plotted"
    v1_results,         \* self.results of the NLGPerformanceAudit instance
    v1_detail_csv,      \* nlg_evaluation_detailed.csv
    v1_summary_csv,     \* nlg_evaluation_summary_cleaned.csv
    v1_runs,            \* run_evaluation calls made on the instance
    v1_output_dir,      \* the directory resultados_evaluacion exists
    v1_charts,          \* the PNG files written into it
    \* --- hallucination_evaluator.py ---
    halluc_status,      \* "idle", "crashed" or "done"
    halluc_scores,      \* the scores printed, each with the pair it was computed
                        \* from: <<[year, model, premisa, hipotesis]>>
    \* --- generador_resumenes.py, run_all ---
    gen_pc,             \* "idle", "years", "combined", "save", "done" or "crashed"
    gen_i,              \* the index of year_data in data (line 177)
    gen_j,              \* the index of the model in models (lines 182, 198)
    gen_results,        \* results
    backend_calls,      \* the backend calls made, in order: <<[request, raised]>>
    gen_call,           \* the latest direct call of generate_deepseek or generate_local:
                        \* [fn, request, response, result]
    \* --- extractor_becas.py, one SistemaExtraccionBecas instance ---
    pdf_folder,         \* the PDFs of the folder: <<[name, text, readable]>>
    folder_exists,      \* self.ruta_data.exists()
    datos_extraidos,    \* self.datos_extraidos
    ext_pc,             \* "idle" or "loop" (inside the for of line 443)
    ext_i,              \* the index of ruta_pdf in archivos_pdf
    ext_runs,           \* ejecutar calls made on the instance
    becas_csv,          \* becas_estructuradas.csv, <<>> while it does not exist
    \* --- extract_all_text.py ---
    dump_pc,            \* "idle", "loop" (inside the for of line 7), "crashed" (an
                        \* exception left the script) or "done"
    dump_i,             \* the index of pdf_path in pdfs
    txt_files           \* the .txt files written: a set of [name, text]

textVars   == <<text_in, text_out>>
evalInputs == <<structured_data, generated_results, has_nlp, data_exists, gen_exists>>
stdVars    == <<std_status, all_evals, detail_csv, comparison_csv>>
v1Vars     == <<v1_status, v1_results, v1_detail_csv, v1_summary_csv, v1_runs,
               v1_output_dir, v1_charts>>
hallucVars == <<halluc_status, halluc_scores>>
evalVars   == <<evalInputs, stdVars, v1Vars, hallucVars>>

genVars    == <<gen_pc, gen_i, gen_j, gen_results, backend_calls, gen_call>>
dumpVars   == <<dump_pc, dump_i, txt_files>>
extVars    == <<pdf_folder, folder_exists, datos_extraidos, ext_pc, ext_i, ext_runs, becas_csv,
               dumpVars>>
vars == <<textVars, evalVars, genVars, extVars>>

-----------------------------------------------------------------------------
(* Characters and Python str primitives *)

Digits == {"0", "1", "2", "3", "4", "5", "6", "7", "8", "9"}
Seps   == {".", ","}
Spaces == {" ", "\n", "\t"}

IsDigit(c) == c \in Digits
IsSep(c)   == c \in Seps
IsSpace(c) == c \in Spaces

\* str.lower() on one symbol: the upper-case symbols the model uses.
LowerSym(c) ==
    CASE c = "A" -> "a"
      [] c = "B" -> "b"
      [] c = "Euros" -> "euros"
      [] c = "EUROS" -> "euros"
      [] c = "Beca básica" -> "beca básica"
      [] c = "BECA BÁSICA" -> "beca básica"
      [] c = "Cuantía variable" -> "cuantía variable"
      [] c = "Cuantía fija ligada a la" -> "cuantía fija ligada a la"
      [] c = "CURSO ACADÉMICO" -> "curso académico"
      [] c = "Curso académico" -> "curso académico"
      [] c = "Umbrales indicativos de patrimonio familiar"
            -> "umbrales indicativos de patrimonio familiar"
      [] c = "Artículo" -> "artículo"
      [] c = "CAPÍTULO" -> "capítulo"
      [] c = "Capítulo" -> "capítulo"
      [] c = "Entre" -> "entre"
      [] OTHER -> c

\* str.lower()
Lower(s) == [i \in 1..Len(s) |-> LowerSym(s[i])]

\* the elements of a sequence
Range(s) == {s[i] : i \in 1..Len(s)}

\* str.split(): the maximal runs of non-whitespace symbols, in order
RECURSIVE SplitFrom(_, _, _)
SplitFrom(s, i, cur) ==
    IF i > Len(s)
    THEN IF cur = <<>> THEN <<>> ELSE <<cur>>
    ELSE IF IsSpace(s[i])
         THEN (IF cur = <<>> THEN <<>> ELSE <<cur>>) \o SplitFrom(s, i + 1, <<>>)
         ELSE SplitFrom(s, i + 1, Append(cur, s[i]))

Split(s) == SplitFrom(s, 1, <<>>)

\* re.findall(r'[\d\.,]+', text): the maximal runs of digits, '.' and ','
RECURSIVE NumRunsFrom(_, _, _)
NumRunsFrom(s, i, cur) ==
    IF i > Len(s)
    THEN IF cur = <<>> THEN <<>> ELSE <<cur>>
    ELSE IF IsDigit(s[i]) \/ IsSep(s[i])
         THEN NumRunsFrom(s, i + 1, Append(cur, s[i]))
         ELSE (IF cur = <<>> THEN <<>> ELSE <<cur>>) \o NumRunsFrom(s, i + 1, <<>>)

FindNumRuns(s) == NumRunsFrom(s, 1, <<>>)

\* StripSeps mutated: only the periods are removed
StripSeps_dotsonly(n) == SelectSeq(n, LAMBDA c : c # ".")

\* n.replace(".", "").replace(",", "")
StripSeps(n) == SelectSeq(n, LAMBDA c : ~IsSep(c))

\* str.isdigit(): non-empty and every character a digit
IsDigitStr(s) == s # <<>> /\ \A i \in 1..Len(s) : IsDigit(s[i])

-----------------------------------------------------------------------------
(* evaluador_resumenes.py: extract_numbers, calculate_repetition_rate *)

\* extract_numbers(text) for a str argument
extract_numbers(text) ==
    IF text = <<>>
    THEN {}
    ELSE {StripSeps(n) : n \in {m \in Range(FindNumRuns(text)) : IsDigitStr(StripSeps(m))}}

\* A value of calculate_repetition_rate as an exact fraction num/den.
Frac(n, d) == [num |-> n, den |-> d]

\* RepetitionRate mutated: the repeats are measured against the distinct words
RepetitionRate_perunique(total, unique) ==
    IF total = 0 THEN Frac(0, 1) ELSE Frac(total - unique, unique)

\* calculate_repetition_rate on a text of total words, unique of them
\* distinct: 0 without words (line 26), else 1 - unique/total (line 30)
RepetitionRate(total, unique) ==
    IF total = 0 THEN Frac(0, 1) ELSE Frac(total - unique, total)

\* calculate_repetition_rate mutated: the empty-text guard tests only the
\* text, not the word list, and divides (ZeroDivisionError -> "raise").
calculate_repetition_rate_noguard(none, text) ==
    LET words == Split(Lower(text))
    IN  IF none \/ text = <<>>
        THEN Frac(0, 1)
        ELSE Frac(Len(words) - Cardinality(Range(words)), Len(words))

\* calculate_repetition_rate(text); none = the argument is None.
calculate_repetition_rate(none, text) ==
    IF none \/ text = <<>> \/ Len(Split(text)) = 0
    THEN Frac(0, 1)
    ELSE LET words == Split(Lower(text))
             unique_words == Range(words)
         IN  RepetitionRate(Len(words), Cardinality(unique_words))

-----------------------------------------------------------------------------
(* Python's re module, on sequences of symbols.                            *)
(* A pattern is a sequence of elements; the constructors below build the   *)
(* patterns the extractor uses.  The matcher backtracks in re's priority   *)
(* order: a lazy repeat tries the shortest match first, a greedy repeat    *)
(* and an optional group the longest, an alternation its branches in turn. *)

\* literal symbols
Lit(s) == <<[t |-> "lit", s |-> s]>>
\* a greedy repeat of a character class: \s*, [\d\.,]+, \d{1,2}, :? ...
\* (max < 0: unbounded)
Cls(S, min, max) == <<[t |-> "cls", S |-> S, min |-> min, max |-> max]>>
\* .*?
Lazy == <<[t |-> "lazy"]>>
\* .* (greedy)
Dots == <<[t |-> "dots"]>>
\* (?:p1|p2|...)
Alt(alts) == <<[t |-> "alt", alts |-> alts]>>
\* (?:p)?
Opt(p) == Alt(<<p, <<>>>>)
\* capturing group number g around p
Grp(g, p) == <<[t |-> "open", g |-> g]>> \o p \o <<[t |-> "close", g |-> g]>>
\* (?=p)
Look(p) == <<[t |-> "look", p |-> p]>>
\* $
EndAnchor == <<[t |-> "end"]>>
\* the symbols re.search skips before the match, and the whole match as
\* group 0
Searching(p) == <<[t |-> "skip"]>> \o Grp(0, p)

\* flags
ReFlags(ic, dotall) == [ic |-> ic, dotall |-> dotall]

NoMatch == [ok |-> FALSE]

\* one symbol against a literal symbol or a class
SymEq(a, b, fl) == IF fl.ic THEN LowerSym(a) = LowerSym(b) ELSE a = b
SymIn(a, S, fl) == a \in S \/ (fl.ic /\ \E x \in S : LowerSym(x) = LowerSym(a))

\* the first position from pos on whose symbol fails Keep(_), Len(text) + 1
\* when there is none
FirstNot(Keep(_), text, pos) ==
    CHOOSE q \in pos..(Len(text) + 1) :
        /\ q = Len(text) + 1 \/ ~Keep(text[q])
        /\ \A r \in pos..(q - 1) : Keep(text[r])

\* the length of the longest run of class symbols from pos on, at most max
RunLen(S, text, pos, max, fl) ==
    LET n == FirstNot(LAMBDA c : SymIn(c, S, fl), text, pos) - pos
    IN  IF max >= 0 /\ n > max THEN max ELSE n

\* the symbols '.' can take from pos on
DotRun(text, pos, fl) ==
    IF fl.dotall THEN Len(text) + 1 - pos
    ELSE FirstNot(LAMBDA c : c # "\n", text, pos) - pos

\* the patterns that can follow when the head element matches nothing
EmptyHeadRests(pat) ==
    LET e == Head(pat)
    IN  CASE e.t = "cls" /\ e.min = 0 -> {Tail(pat)}
          [] e.t = "lit" /\ e.s = <<>> -> {Tail(pat)}
          [] e.t \in {"open", "close"} -> {Tail(pat)}
          [] e.t = "alt" -> {e.alts[i] \o Tail(pat) : i \in 1..Len(e.alts)}
          [] OTHER -> {}

\* the symbols a match of the pattern can begin with; any: it can also be
\* empty or begin with any symbol
RECURSIVE FirstSyms(_)
FirstSyms(pat) ==
    IF pat = <<>> THEN [any |-> TRUE, S |-> {}]
    ELSE LET e == Head(pat)
         IN  [any |-> \/ e.t \in {"lazy", "skip", "dots", "look", "back", "end"}
                      \/ \E p \in EmptyHeadRests(pat) : FirstSyms(p).any,
              S   |-> (CASE e.t = "lit" /\ e.s # <<>> -> {e.s[1]}
                         [] e.t = "cls" -> e.S
                         [] OTHER -> {})
                      \cup UNION {FirstSyms(p).S : p \in EmptyHeadRests(pat)}]

\* a match of a pattern with these first symbols can begin at position p
CanBegin(fs, text, p, fl) == fs.any \/ (p <= Len(text) /\ SymIn(text[p], fs.S, fl))

\* a configuration of the matcher: the pattern still to match, the position
\* and the captures (group -> [s, e]); Dead: a position the rest of the
\* pattern cannot begin at
Cfg(pat, pos, caps) == [live |-> TRUE, pat |-> pat, pos |-> pos, caps |-> caps]
Dead == [live |-> FALSE]
IsLive(c) == c.live

\* the configurations after the head element, with rest following, taking
\* n symbols, n from hi down to lo (a greedy repeat) or from lo up to hi (a
\* lazy one)
Longest(rest, text, pos, lo, hi, caps) ==
    IF hi < lo THEN <<>> ELSE [i \in 1..(hi - lo + 1) |-> Cfg(rest, pos + hi + 1 - i, caps)]
Shortest(rest, text, pos, hi, caps, fs, fl) ==
    IF hi < 0 THEN <<>>
    ELSE [i \in 1..(hi + 1) |->
            IF CanBegin(fs, text, pos + i - 1, fl) THEN Cfg(rest, pos + i - 1, caps) ELSE Dead]

\* the configurations the head element of the pattern leads to, in the order
\* re tries them
Steps(pat, text, pos, caps, fl) ==
    LET e    == Head(pat)
        rest == Tail(pat)
    IN  CASE e.t = "lit" ->
               IF /\ pos + Len(e.s) - 1 <= Len(text)
                  /\ \A i \in 1..Len(e.s) : SymEq(text[pos + i - 1], e.s[i], fl)
               THEN <<Cfg(rest, pos + Len(e.s), caps)>>
               ELSE <<>>
          [] e.t = "cls" ->
               Longest(rest, text, pos, e.min, RunLen(e.S, text, pos, e.max, fl), caps)
          [] e.t = "dots" -> Longest(rest, text, pos, 0, DotRun(text, pos, fl), caps)
          [] e.t = "lazy" ->
               Shortest(rest, text, pos, DotRun(text, pos, fl), caps, FirstSyms(rest), fl)
          [] e.t = "skip" ->
               Shortest(rest, text, pos, Len(text) + 1 - pos, caps, FirstSyms(rest), fl)
          [] e.t = "alt" -> [i \in 1..Len(e.alts) |-> Cfg(e.alts[i] \o rest, pos, caps)]
          [] e.t = "open" -> <<Cfg(rest, pos, (e.g :> [s |-> pos, e |-> pos]) @@ caps)>>
          [] e.t = "close" ->
               <<Cfg(rest, pos, (e.g :> [s |-> caps[e.g].s, e |-> pos]) @@ caps)>>
          [] e.t = "look" -> <<Cfg(e.p \o <<[t |-> "back", pos |-> pos]>> \o rest, pos, caps)>>
          [] e.t = "back" -> <<Cfg(rest, e.pos, caps)>>
          [] e.t = "end" ->
               IF pos = Len(text) + 1 \/ (pos = Len(text) /\ text[pos] = "\n")
               THEN <<Cfg(rest, pos, caps)>>
               ELSE <<>>

\* the match [end, caps] that re finds from the first of the configurations
\* lo..hi that leads to one: a set, empty when none does
RECURSIVE FirstOf(_, _, _, _, _)
FirstOf(cfgs, lo, hi, text, fl) ==
    IF lo > hi THEN {}
    ELSE IF lo < hi
    THEN UNION {IF m # {} THEN m ELSE FirstOf(cfgs, ((lo + hi) \div 2) + 1, hi, text, fl) :
                m \in {FirstOf(cfgs, lo, (lo + hi) \div 2, text, fl)}}
    ELSE IF cfgs[lo].pat = <<>>
    THEN {[end |-> cfgs[lo].pos, caps |-> cfgs[lo].caps]}
    ELSE UNION {FirstOf(next, 1, Len(next), text, fl) :
                next \in {SelectSeq(Steps(cfgs[lo].pat, text, cfgs[lo].pos, cfgs[lo].caps, fl),
                                    IsLive)}}

\* the pattern matched at position pos
ReMatchAt(pat, text, pos, caps, fl) == FirstOf(<<Cfg(pat, pos, caps)>>, 1, 1, text, fl)

\* the match object of a match found: [ok, start, end, caps]
AsMatch(found) ==
    IF found = {} THEN NoMatch
    ELSE [ok    |-> TRUE,
          start |-> (CHOOSE r \in found : TRUE).caps[0].s,
          end   |-> (CHOOSE r \in found : TRUE).end,
          caps  |-> (CHOOSE r \in found : TRUE).caps]

\* re.search from position start on: the leftmost match
SearchFrom(pat, text, start, fl) ==
    IF start > Len(text) + 1 THEN NoMatch
    ELSE AsMatch(ReMatchAt(Searching(pat), text, start, <<>>, fl))

\* re.search(pattern, text, flags)
ReSearch(pat, text, fl) == SearchFrom(pat, text, 1, fl)

\* re.match(pattern, text)
ReMatch(pat, text, fl) == AsMatch(ReMatchAt(Grp(0, pat), text, 1, <<>>, fl))

\* m.group(g); the whole match for g = 0
HasGroup(m, g) == g \in DOMAIN m.caps
Group(text, m, g) ==
    IF g = 0 THEN SubSeq(text, m.start, m.end - 1)
    ELSE SubSeq(text, m.caps[g].s, m.caps[g].e - 1)

\* re.finditer(pattern, text): the non-overlapping matches, left to right
RECURSIVE FindIterFrom(_, _, _, _)
FindIterFrom(pat, text, start, fl) ==
    LET m == SearchFrom(pat, text, start, fl)
    IN  IF ~m.ok THEN <<>>
        ELSE <<m>> \o FindIterFrom(pat, text, IF m.end > m.start THEN m.end ELSE m.end + 1, fl)

FindIter(pat, text, fl) == FindIterFrom(pat, text, 1, fl)

-----------------------------------------------------------------------------
(* JSON values as the stages exchange them, and Python's str() of them *)

JStr(s)      == [t |-> "str", s |-> s]
JInt(digits) == [t |-> "int", s |-> digits]
JList(items) == [t |-> "list", items |-> items]
\* a dict keeps its insertion order: a sequence of [k |-> key str, v |-> value]
JDict(items) == [t |-> "dict", items |-> items]
KV(k, v)     == [k |-> k, v |-> v]

\* the sequences of a sequence of sequences, concatenated
RECURSIVE Flatten(_)
Flatten(ss) == IF ss = <<>> THEN <<>> ELSE Head(ss) \o Flatten(Tail(ss))

\* sep.join(parts)
RECURSIVE Join(_, _)
Join(sep, parts) ==
    IF parts = <<>> THEN <<>>
    ELSE IF Len(parts) = 1 THEN parts[1]
    ELSE parts[1] \o sep \o Join(sep, Tail(parts))

\* repr(v) of a JSON value: quotes around strings, "k: v" pairs, ", " between
RECURSIVE PyRepr(_)
PyRepr(v) ==
    CASE v.t = "str"  -> <<"'">> \o v.s \o <<"'">>
      [] v.t = "int"  -> v.s
      [] v.t = "list" ->
            <<"[">> \o Join(<<",", " ">>, [i \in 1..Len(v.items) |-> PyRepr(v.items[i])])
                    \o <<"]">>
      [] v.t = "dict" ->
            <<"{">> \o Join(<<",", " ">>,
                            [i \in 1..Len(v.items) |->
                                <<"'">> \o v.items[i].k \o <<"'", ":", " ">>
                                        \o PyRepr(v.items[i].v)])
                    \o <<"}">>

\* str(v)
PyStr(v) == IF v.t = "str" THEN v.s ELSE PyRepr(v)

\* the sentinel of a field whose pattern did not match
NoDetectado == <<"No", " ", "detectado">>

\* dict lookups
HasKey(d, k) == \E i \in 1..Len(d.items) : d.items[i].k = k
Lookup(d, k) == d.items[CHOOSE i \in 1..Len(d.items) : d.items[i].k = k].v

-----------------------------------------------------------------------------
(* Numbers: a value with two decimals is held as its count of hundredths *)

\* the integer nearest to num/den (num >= 0, den > 0), a tie going to the even one
RoundHalfEven(num, den) ==
    LET q == num \div den
        r == num % den
    IN  IF 2 * r < den THEN q
        ELSE IF 2 * r > den THEN q + 1
        ELSE IF q % 2 = 0 THEN q ELSE q + 1

-----------------------------------------------------------------------------
(* evaluador_resumenes.py: run_evaluation *)

COMBINED == <<"combined">>

\* result.get(key, default)
Get(result, key, default) == IF key \in DOMAIN result THEN result[key] ELSE default

\* the numbers of every value of one Document Record (lines 57-58, 51-52)
RecordNumbers(item) == UNION {extract_numbers(PyStr(item[k])) : k \in DOMAIN item}

\* facts_by_year.get(year, {}): the last record carrying the label wins (line 43)
HasYear(data, year) == \E i \in 1..Len(data) : data[i].curso_academico.s = year
LastOfYear(data, year) ==
    data[CHOOSE i \in 1..Len(data) :
            /\ data[i].curso_academico.s = year
            /\ \A j \in (i + 1)..Len(data) : data[j].curso_academico.s # year]

\* TargetFacts mutated: every key is scored against every record
TargetFacts_allrecords(data, year) ==
    UNION {RecordNumbers(data[i]) : i \in 1..Len(data)}

\* target_facts of one year key (lines 48-58)
TargetFacts(data, year) ==
    IF year = COMBINED
    THEN UNION {RecordNumbers(data[i]) : i \in 1..Len(data)}
    ELSE IF HasYear(data, year) THEN RecordNumbers(LastOfYear(data, year)) ELSE {}

\* HallucinatedNums mutated: the length filter of line 68 is left out
HallucinatedNums_nofilter(summary_numbers, target_facts) ==
    summary_numbers \ target_facts

\* the hallucinated numbers of a cell (lines 67-68)
HallucinatedNums(summary_numbers, target_facts) ==
    {n \in summary_numbers \ target_facts : Len(n) > 1}

\* the reference numbers recall is measured on (line 71)
KeyAmounts(target_facts) == {n \in target_facts : Len(n) >= 3}

\* RecalledNums mutated: every long number of the summary counts as recalled
RecalledNums_anylong(summary_numbers, target_facts) ==
    {n \in summary_numbers : Len(n) >= 3}

\* recalled_nums (line 72)
RecalledNums(summary_numbers, target_facts) ==
    summary_numbers \cap KeyAmounts(target_facts)

\* FactRecallPct mutated: the denominator counts every reference number,
\* not only the key amounts
FactRecallPct_alltargets(summary_numbers, target_facts) ==
    LET key_amounts   == KeyAmounts(target_facts)
        recalled_nums == summary_numbers \cap key_amounts
    IN  IF key_amounts # {}
        THEN RoundHalfEven(Cardinality(recalled_nums) * 10000, Cardinality(target_facts))
        ELSE 0

\* FactRecallPct mutated: nothing to recall counts as everything recalled
FactRecallPct_empty100(summary_numbers, target_facts) ==
    LET key_amounts   == KeyAmounts(target_facts)
        recalled_nums == summary_numbers \cap key_amounts
    IN  IF key_amounts # {}
        THEN RoundHalfEven(Cardinality(recalled_nums) * 10000, Cardinality(key_amounts))
        ELSE 10000

\* recall_score, rounded to two decimals, in hundredths (lines 72-73, 82)
FactRecallPct(summary_numbers, target_facts) ==
    LET key_amounts   == KeyAmounts(target_facts)
        recalled_nums == RecalledNums(summary_numbers, target_facts)
    IN  IF key_amounts # {}
        THEN RoundHalfEven(Cardinality(recalled_nums) * 10000, Cardinality(key_amounts))
        ELSE 0

\* the Evaluation Record of one non-error cell (lines 63-86)
EvalEntry(year, model_name, result, target_facts) ==
    LET text            == Get(result, "text", <<>>)
        summary_numbers == extract_numbers(text)
        rate            == calculate_repetition_rate(FALSE, text)
    IN  [Year                 |-> year,
         Model                |-> model_name,
         Time_s               |-> Get(result, "time_seconds", 0),
         Tokens_Out           |-> Get(result, "tokens_output", 0),
         Fact_Recall_Pct      |-> FactRecallPct(summary_numbers, target_facts),
         Hallucinations_Count |-> Cardinality(HallucinatedNums(summary_numbers, target_facts)),
         Repetition_Pct       |-> RoundHalfEven(rate.num * 10000, rate.den),
         Word_Count           |-> Len(Split(text))]

\* ScoredCells mutated: the error test of line 61 is left out
ScoredCells_all(models) == models

\* the cells of one year that are scored: those without the key "error" (line 61)
ScoredCells(models) == SelectSeq(models, LAMBDA m : "error" \notin DOMAIN m.result)

\* the Evaluation Records of one year, in the order of its models (lines 60-87)
YearEvals(data, y) ==
    LET cells  == ScoredCells(y.models)
        target == TargetFacts(data, y.year)
    IN  [i \in 1..Len(cells) |-> EvalEntry(y.year, cells[i].model, cells[i].result, target)]

\* all_evals after the loop over years and models (lines 47-87)
AllEvals(data, generated) ==
    Flatten([i \in 1..Len(generated) |-> YearEvals(data, generated[i])])

\* the columns models_stats collects (line 102)
StatKeys == <<"Time_s", "Fact_Recall_Pct", "Hallucinations_Count", "Repetition_Pct",
              "Word_Count">>

\* the numeric columns of a detail row (lines 77-86)
DetailNumericKeys == {"Time_s", "Tokens_Out", "Fact_Recall_Pct", "Hallucinations_Count",
                      "Repetition_Pct", "Word_Count"}

\* hundredths in one unit of a column: percentages and seconds are already
\* held in hundredths, counts are whole numbers
Scale(k) == IF k \in {"Time_s", "Fact_Recall_Pct", "Repetition_Pct"} THEN 1 ELSE 100

RECURSIVE SumOf(_, _)
SumOf(rows, k) == IF rows = <<>> THEN 0 ELSE Head(rows)[k] + SumOf(Tail(rows), k)

\* the models of the rows in order of first appearance (dict insertion, line 101)
RECURSIVE FirstSeen(_, _)
FirstSeen(rows, seen) ==
    IF rows = <<>> THEN <<>>
    ELSE IF Head(rows).Model \in seen
         THEN FirstSeen(Tail(rows), seen)
         ELSE <<Head(rows).Model>> \o FirstSeen(Tail(rows), seen \cup {Head(rows).Model})

\* one row of comparativa_modelos.csv: round(sum(v) / len(v), 2) per
\* collected column, in hundredths (lines 99-111)
SummaryRow(m, evals) ==
    LET rows == SelectSeq(evals, LAMBDA e : e.Model = m)
    IN  [k \in {"Model"} \cup Range(StatKeys) |->
            IF k = "Model" THEN m
            ELSE RoundHalfEven(SumOf(rows, k) * Scale(k), Len(rows))]

\* comparison_results (lines 98-111)
ComparisonResults(evals) ==
    LET ms == FirstSeen(evals, {})
    IN  [i \in 1..Len(ms) |-> SummaryRow(ms[i], evals)]

-----------------------------------------------------------------------------
(* evaluador_resumenes_v1.py: NLGPerformanceAudit *)

\* the index after the run of digits that starts at i
RECURSIVE DigitsEnd(_, _)
DigitsEnd(s, i) == IF i <= Len(s) /\ IsDigit(s[i]) THEN DigitsEnd(s, i + 1) ELSE i

\* re.findall(r"\d+(?:[\.,]\d+)?", s): digits, then at most one separator
\* followed by digits; the scan resumes after each match
RECURSIVE V1MatchesFrom(_, _)
V1MatchesFrom(s, i) ==
    IF i > Len(s) THEN <<>>
    ELSE IF ~IsDigit(s[i]) THEN V1MatchesFrom(s, i + 1)
    ELSE LET j == DigitsEnd(s, i)
             k == IF j + 1 <= Len(s) /\ IsSep(s[j]) /\ IsDigit(s[j + 1])
                  THEN DigitsEnd(s, j + 1)
                  ELSE j
         IN  <<SubSeq(s, i, k - 1)>> \o V1MatchesFrom(s, k)

\* _extract_numbers on a str or a number (lines 87-93)
V1NumbersOfStr(s) ==
    {c \in {StripSeps(m) : m \in Range(V1MatchesFrom(s, 1))} : Len(c) >= 2}

\* _extract_numbers(obj): dict values and list items are visited, keys are not
RECURSIVE V1ExtractNumbers(_)
V1ExtractNumbers(obj) ==
    CASE obj.t = "dict" -> UNION {V1ExtractNumbers(obj.items[i].v) : i \in 1..Len(obj.items)}
      [] obj.t = "list" -> UNION {V1ExtractNumbers(obj.items[i]) : i \in 1..Len(obj.items)}
      [] OTHER          -> V1NumbersOfStr(PyStr(obj))

\* _extract_numbers(ref_data) of a Document Record (line 149)
V1RecordNumbers(item) == UNION {V1ExtractNumbers(item[k]) : k \in DOMAIN item}

\* the years gold_standards has a reference summary for (lines 114-120)
GoldYears == {<<"2", "0", "2", "1", "-", "2", "0", "2", "2">>,
              <<"2", "0", "2", "2", "-", "2", "0", "2", "3">>,
              <<"2", "0", "2", "3", "-", "2", "0", "2", "4">>,
              <<"2", "0", "2", "4", "-", "2", "0", "2", "5">>,
              <<"2", "0", "2", "5", "-", "2", "0", "2", "6">>}

\* str.strip()
RECURSIVE LStrip(_)
LStrip(s) == IF s # <<>> /\ IsSpace(Head(s)) THEN LStrip(Tail(s)) ELSE s
RECURSIVE RStrip(_)
RStrip(s) ==
    IF s # <<>> /\ IsSpace(s[Len(s)]) THEN RStrip(SubSeq(s, 1, Len(s) - 1)) ELSE s
Strip(s) == RStrip(LStrip(s))

\* what the external scorers (ROUGE-L, BLEU, BERTScore) return when they are
\* installed, in hundredths of a percent; their contract is only a score in [0,1]
LibScore == 4250

\* hits (line 161) and the numbers counted as hallucinated (line 163)
V1Hits(sum_numbers, ref_numbers) == sum_numbers \cap ref_numbers
V1Hallucinated(sum_numbers, ref_numbers) == sum_numbers \ ref_numbers

\* recall and halluc_rate, rounded, in hundredths (lines 162-163, 186-187)
V1RecallPct(sum_numbers, ref_numbers) ==
    IF ref_numbers # {}
    THEN RoundHalfEven(Cardinality(V1Hits(sum_numbers, ref_numbers)) * 10000,
                       Cardinality(ref_numbers))
    ELSE 0

V1HallucRatePct(sum_numbers, ref_numbers) ==
    IF sum_numbers # {}
    THEN RoundHalfEven(Cardinality(V1Hallucinated(sum_numbers, ref_numbers)) * 10000,
                       Cardinality(sum_numbers))
    ELSE 0

\* one row of self.results (lines 156-193); nlp: rouge_score and
\* bert_score are importable and the year's PDF is readable
V1Entry(year, model_name, cell, ref_numbers, nlp) ==
    LET gen_text    == Get(cell, "text", <<>>)
        sum_numbers == V1NumbersOfStr(gen_text)
    IN  [Year             |-> year,
         Model            |-> model_name,
         Recall_Pct       |-> V1RecallPct(sum_numbers, ref_numbers),
         Halluc_Rate_Pct  |-> V1HallucRatePct(sum_numbers, ref_numbers),
         ROUGE_L_Pct      |-> IF nlp /\ year \in GoldYears THEN LibScore ELSE 0,
         BLEU_Pct         |-> IF nlp /\ year \in GoldYears THEN LibScore ELSE 0,
         BERTScore_F1_Pct |-> IF nlp /\ Strip(gen_text) # <<>> THEN LibScore ELSE 0,
         Latency_s        |-> Get(cell, "time_seconds", 0)]

\* the rows one run appends for one year: none when no Document Record has
\* the year (line 147), none for a cell with the key "error" (line 154)
V1YearEntries(data, y, nlp) ==
    IF ~HasYear(data, y.year) THEN <<>>
    ELSE LET cells == ScoredCells(y.models)
             ref   == V1RecordNumbers(LastOfYear(data, y.year))
         IN  [i \in 1..Len(cells) |->
                 V1Entry(y.year, cells[i].model, cells[i].result, ref, nlp)]

\* the rows one run_evaluation appends to self.results (lines 145-193)
V1NewEntries(data, generated, nlp) ==
    Flatten([i \in 1..Len(generated) |-> V1YearEntries(data, generated[i], nlp)])

V1NumericKeys == {"Recall_Pct", "Halluc_Rate_Pct", "ROUGE_L_Pct", "BLEU_Pct",
                  "BERTScore_F1_Pct", "Latency_s"}

\* the order pandas sorts the group keys in
ModelRank(m) ==
    CASE m = "deepseek-chat" -> 1
      [] m = "deepseek-reasoner" -> 2
      [] m = "gpt2" -> 3
      [] OTHER -> 4

RECURSIVE SortModels(_)
SortModels(S) ==
    IF S = {} THEN <<>>
    ELSE LET m == CHOOSE x \in S : \A y \in S : ModelRank(x) <= ModelRank(y)
         IN  <<m>> \o SortModels(S \ {m})

\* df.groupby("Model").mean(numeric_only=True).reset_index() (line 200): one
\* row per model, sorted by model, every numeric column, the exact mean
V1Summary(results) ==
    LET ms == SortModels({results[i].Model : i \in 1..Len(results)})
    IN  [i \in 1..Len(ms) |->
            LET rows == SelectSeq(results, LAMBDA e : e.Model = ms[i])
            IN  [k \in {"Model"} \cup V1NumericKeys |->
                    IF k = "Model" THEN ms[i] ELSE Frac(SumOf(rows, k), Len(rows))]]

-----------------------------------------------------------------------------
(* hallucination_evaluator.py *)

\* keys of the nested mappings of a Document Record
K_Umbral1 == <<"Umbral", " ", "1">>
K_Umbral2 == <<"Umbral", " ", "2">>
K_Umbral3 == <<"Umbral", " ", "3">>
K_tabla   == <<"tabla">>
K_un      == <<"un">>
K_dos     == <<"dos">>

\* sub in s, for two str
Contains(s, sub) ==
    \E i \in 1..(Len(s) - Len(sub) + 1) : SubSeq(s, i, i + Len(sub) - 1) = sub

\* key in v: a key test on a dict, a substring test on a str
In(key, v) == IF v.t = "dict" THEN HasKey(v, key) ELSE Contains(v.s, key)

\* the exception v[key] raises for a str key, or "none"
SubscriptExc(v, key) ==
    IF v.t = "dict"
    THEN IF HasKey(v, key) THEN "none" ELSE "KeyError"
    ELSE "TypeError"

\* the first exception of a chain of subscripts v[path[1]][path[2]]..., or "none"
RECURSIVE PathExc(_, _)
PathExc(v, path) ==
    IF path = <<>> THEN "none"
    ELSE IF SubscriptExc(v, Head(path)) # "none" THEN SubscriptExc(v, Head(path))
    ELSE PathExc(Lookup(v, Head(path)), Tail(path))

\* v[path[1]][path[2]]... when no subscript raises
RECURSIVE PathGet(_, _)
PathGet(v, path) == IF path = <<>> THEN v ELSE PathGet(Lookup(v, Head(path)), Tail(path))

\* the first of the exceptions that is not "none", in evaluation order
RECURSIVE FirstExc(_)
FirstExc(excs) ==
    IF excs = <<>> THEN "none"
    ELSE IF Head(excs) # "none" THEN Head(excs) ELSE FirstExc(Tail(excs))

\* for tramo in datos['excelencia_tramos']: tramo['nota_media'] ... (lines 38-39):
\* the characters of a str are str, which a str key cannot subscript
TramosExc(tramos) ==
    IF tramos.t = "list"
    THEN FirstExc([i \in 1..Len(tramos.items) |->
                     FirstExc(<<SubscriptExc(tramos.items[i], <<"nota_media">>),
                                SubscriptExc(tramos.items[i], <<"cuantia_euros">>)>>)])
    ELSE IF tramos.t = "str" /\ tramos.s # <<>> THEN "TypeError"
    ELSE IF tramos.t = "dict" /\ tramos.items # <<>> THEN "TypeError"
    ELSE IF tramos.t = "int" THEN "TypeError"
    ELSE "none"

TramosText(tramos) ==
    IF tramos.t = "list"
    THEN Flatten([i \in 1..Len(tramos.items) |->
            <<"Nota", " ", "media", " ">> \o PyStr(Lookup(tramos.items[i], <<"nota_media">>))
            \o <<" ", "recibe", " ">> \o PyStr(Lookup(tramos.items[i], <<"cuantia_euros">>))
            \o <<" ", "euros", ".", " ">>])
    ELSE <<>>

\* the threshold part (lines 41-56): the keyed-tier branch reads
\* umbrales['Umbral 1']['un'], ['dos'] and umbrales['Umbral 2']['un'], ['dos']
UmbralesExc(umbrales) ==
    IF In(K_Umbral1, umbrales)
    THEN FirstExc(<<PathExc(umbrales, <<K_Umbral1, K_un>>),
                    PathExc(umbrales, <<K_Umbral1, K_dos>>),
                    PathExc(umbrales, <<K_Umbral2, K_un>>),
                    PathExc(umbrales, <<K_Umbral2, K_dos>>)>>)
    ELSE "none"

\* item.get(key, '?')
GetOr(item, key) == IF HasKey(item, key) THEN PyStr(Lookup(item, key)) ELSE <<"?">>

\* texto.rstrip(', ')
RECURSIVE RStripCommaSpace(_)
RStripCommaSpace(s) ==
    IF s # <<>> /\ s[Len(s)] \in {",", " "}
    THEN RStripCommaSpace(SubSeq(s, 1, Len(s) - 1))
    ELSE s

\* texto after the threshold part, given texto before it
UmbralesText(texto, umbrales) ==
    IF In(K_Umbral1, umbrales)
    THEN texto
         \o <<"\n", "Límites", " ", "Umbral", " ", "1", ":", " ">>
         \o PyStr(PathGet(umbrales, <<K_Umbral1, K_un>>))
         \o <<" ", "(", "1", " ", "miembro", ")", ",", " ">>
         \o PyStr(PathGet(umbrales, <<K_Umbral1, K_dos>>))
         \o <<" ", "(", "2", " ", "miembros", ")", ",", " ", ".", ".", ".">>
         \o <<"\n", "Límites", " ", "Umbral", " ", "2", ":", " ">>
         \o PyStr(PathGet(umbrales, <<K_Umbral2, K_un>>))
         \o <<" ", "(", "1", " ", "miembro", ")", ",", " ">>
         \o PyStr(PathGet(umbrales, <<K_Umbral2, K_dos>>))
         \o <<" ", "(", "2", " ", "miembros", ")", ",", " ", ".", ".", ".">>
    ELSE IF In(K_tabla, umbrales)
    THEN LET tabla == Lookup(umbrales, K_tabla).items
         IN  RStripCommaSpace(
                texto
                \o <<"\n", "Umbrales", " ", "de", " ", "renta", " ", "por", " ", "familia",
                     ":", " ">>
                \o Flatten([i \in 1..Len(tabla) |->
                       GetOr(tabla[i], <<"miembros">>) \o <<" ", "miembros", " ", "(">>
                       \o GetOr(tabla[i], <<"umbral_", "1">>) \o <<"/">>
                       \o GetOr(tabla[i], <<"umbral_", "2">>) \o <<"/">>
                       \o GetOr(tabla[i], <<"umbral_", "3">>) \o <<")", ",", " ">>]))
             \o <<".">>
    ELSE texto

\* the subscripts of the closing f-string (lines 59-64), in evaluation order
TailPaths ==
    <<<<"umbrales_patrimonio", <<"fincas_urbanas_limite">>>>,
      <<"requisitos_academicos", <<"creditos_tiempo_completo">>>>,
      <<"suplementos_insulares", <<"suplemento_insular_basico">>>>,
      <<"deducciones_renta", <<"deduccion_familia_numerosa_especial">>>>,
      <<"plazos_solicitud", <<"texto_extracto">>>>>>

TailExc(datos) ==
    FirstExc([i \in 1..Len(TailPaths) |->
                SubscriptExc(datos[TailPaths[i][1]], TailPaths[i][2])])

\* EurosLine mutated: the value is written as a currency amount with decimals
EurosLine_decimals(label, v) ==
    label \o <<":", " ">> \o PyStr(v) \o <<",", "0", "0", " ", "euros", ".", "\n">>

\* the labels of the six monetary lines (lines 31-36)
EurosLabels ==
    {<<"Cuantía", " ", "renta", " ", "fija">>, <<"Cuantía", " ", "residencia">>,
     <<"Beca", " ", "básica">>, <<"Cuantía", " ", "variable", " ", "mínima">>,
     <<"Excelencia", " ", "mínima">>, <<"Excelencia", " ", "máxima">>}

\* one "label: value euros." line of the opening f-string (lines 31-36)
EurosLine(label, v) == label \o <<":", " ">> \o PyStr(v) \o <<" ", "euros", ".", "\n">>

\* the premise text when nothing raises (lines 28-64)
PremiseText(datos) ==
    LET head ==
               <<"Fichero", ":", " ">> \o PyStr(datos.fichero) \o <<".", "\n">>
            \o <<"Curso", " ", "académico", ":", " ">> \o PyStr(datos.curso_academico)
            \o <<".", "\n">>
            \o <<"Programas", " ", "educativos", ":", " ">>
            \o PyStr(datos.programas_educativos) \o <<"\n">>
            \o EurosLine(<<"Cuantía", " ", "renta", " ", "fija">>, datos.cuantia_renta_fija)
            \o EurosLine(<<"Cuantía", " ", "residencia">>, datos.cuantia_residencia)
            \o EurosLine(<<"Beca", " ", "básica">>, datos.beca_basica)
            \o EurosLine(<<"Cuantía", " ", "variable", " ", "mínima">>,
                         datos.cuantia_variable_minima)
            \o EurosLine(<<"Excelencia", " ", "mínima">>, datos.excelencia_min)
            \o EurosLine(<<"Excelencia", " ", "máxima">>, datos.excelencia_max)
            \o <<"Tramos", " ", "de", " ", "excelencia", ":", " ">>
            \o TramosText(datos.excelencia_tramos)
        tail(i, label, dot) ==
            <<"\n">> \o label \o <<" ">>
            \o PyStr(Lookup(datos[TailPaths[i][1]], TailPaths[i][2])) \o dot
    IN  UmbralesText(head, datos.umbrales_renta)
        \o tail(1, <<"Umbrales", " ", "de", " ", "patrimonio", ":", " ", "Límite", " ",
                     "urbanas">>, <<".">>)
        \o tail(2, <<"Requisitos", " ", "académicos", ":", " ", "Créditos", " ",
                     "completo">>, <<".", " ">>)
        \o tail(3, <<"Suplementos", " ", "insulares", ":", " ", "Básico">>, <<".", " ">>)
        \o tail(4, <<"Deducciones", " ", "de", " ", "renta", ":", " ", "Familia", " ",
                     "numerosa", " ", "especial">>, <<".", " ">>)
        \o tail(5, <<"Plazos", " ", "de", " ", "solicitud", ":">>, <<>>)

\* generar_texto_becas(datos): the premise, or the exception it raises
generar_texto_becas(datos) ==
    LET exc == FirstExc(<<TramosExc(datos.excelencia_tramos),
                          UmbralesExc(datos.umbrales_renta),
                          TailExc(datos)>>)
    IN  IF exc # "none"
        THEN [raised |-> TRUE, exc |-> exc, texto |-> <<>>]
        ELSE [raised |-> FALSE, exc |-> "none", texto |-> PremiseText(datos)]

\* re.sub(r'\n+', ' ', texto)
RECURSIVE CollapseNewlines(_)
CollapseNewlines(s) ==
    IF s = <<>> THEN <<>>
    ELSE IF Head(s) = "\n"
         THEN IF Len(s) > 1 /\ s[2] = "\n"
              THEN CollapseNewlines(Tail(s))
              ELSE <<" ">> \o CollapseNewlines(Tail(s))
         ELSE <<Head(s)>> \o CollapseNewlines(Tail(s))

\* limpiar_resumen mutated: every newline becomes a space of its own
limpiar_resumen_eachnewline(texto) ==
    IF texto = <<>> THEN <<>>
    ELSE Strip([i \in 1..Len(SelectSeq(texto, LAMBDA c : c # "*")) |->
                  IF SelectSeq(texto, LAMBDA c : c # "*")[i] = "\n" THEN " "
                  ELSE SelectSeq(texto, LAMBDA c : c # "*")[i]])

\* limpiar_resumen(texto) for a str (lines 68-74)
limpiar_resumen(texto) ==
    IF texto = <<>> THEN <<>>
    ELSE Strip(CollapseNewlines(SelectSeq(texto, LAMBDA c : c # "*")))

\* the models the main loop scores (line 119)
HallucModels == <<"gpt2", "deepseek-chat", "deepseek-reasoner">>

\* the year labels of the model
Y2021       == <<"2", "0", "2", "1", "-", "2", "0", "2", "2">>
Y2022       == <<"2", "0", "2", "2", "-", "2", "0", "2", "3">>
DESCONOCIDO == <<"Desconocido">>

\* the order sorted() puts the labels in (code points: digits, 'D', 'c')
YearRank(y) ==
    CASE y = Y2021 -> 1
      [] y = Y2022 -> 2
      [] y = DESCONOCIDO -> 3
      [] y = COMBINED -> 4
      [] OTHER -> 5

RECURSIVE SortYears(_)
SortYears(S) ==
    IF S = {} THEN <<>>
    ELSE LET m == CHOOSE x \in S : \A y \in S : YearRank(x) <= YearRank(y)
         IN  <<m>> \o SortYears(S \ {m})

\* next(item for item in becas_data if item['curso_academico'] == anio): the
\* first record carrying the label (line 104)
FirstOfYear(data, year) ==
    data[CHOOSE i \in 1..Len(data) :
            /\ data[i].curso_academico.s = year
            /\ \A j \in 1..(i - 1) : data[j].curso_academico.s # year]

\* resumenes_data.get(anio, {}): the cells of a year key, none when absent
CellsOfYear(generated, year) ==
    IF \E i \in 1..Len(generated) : generated[i].year = year
    THEN generated[CHOOSE i \in 1..Len(generated) : generated[i].year = year].models
    ELSE <<>>

\* resumenes_anno.get(model_name, {})
CellOfModel(models, model_name) ==
    IF \E i \in 1..Len(models) : models[i].model = model_name
    THEN models[CHOOSE i \in 1..Len(models) : models[i].model = model_name].result
    ELSE <<>>

\* the scores printed for one year (lines 113-127): a cell is scored when
\* its 'text' is a non-empty str
HallucYearScores(year, premisa_facts, models) ==
    LET scored == SelectSeq(HallucModels,
                            LAMBDA m : Get(CellOfModel(models, m), "text", <<>>) # <<>>)
    IN  [i \in 1..Len(scored) |->
            [year |-> year, model |-> scored[i],
             premisa |-> premisa_facts,
             hipotesis |-> limpiar_resumen(CellOfModel(models, scored[i]).text)]]

\* the main loop over the sorted years (lines 99-127): generar_texto_becas is
\* not guarded, so its exception ends the script after the scores printed so far
RECURSIVE HallucLoop(_, _, _)
HallucLoop(years, becas_data, resumenes_data) ==
    IF years = <<>> THEN [scores |-> <<>>, crashed |-> FALSE]
    ELSE IF generar_texto_becas(FirstOfYear(becas_data, Head(years))).raised
    THEN [scores |-> <<>>, crashed |-> TRUE]
    ELSE LET rest == HallucLoop(Tail(years), becas_data, resumenes_data)
         IN  [scores  |-> HallucYearScores(Head(years),
                                           generar_texto_becas(
                                               FirstOfYear(becas_data, Head(years))).texto,
                                           CellsOfYear(resumenes_data, Head(years)))
                          \o rest.scores,
              crashed |-> rest.crashed]

\* the whole script given the two files (lines 93-127)
HallucMain(becas_data, resumenes_data) ==
    HallucLoop(SortYears({becas_data[i].curso_academico.s : i \in 1..Len(becas_data)}),
               becas_data, resumenes_data)

-----------------------------------------------------------------------------
(* extractor_becas.py: the extraction rules of SistemaExtraccionBecas *)

NumSep == Digits \cup Seps
IC     == ReFlags(TRUE, FALSE)     \* re.IGNORECASE
ICS    == ReFlags(TRUE, TRUE)      \* re.IGNORECASE | re.DOTALL
PLAIN  == ReFlags(FALSE, FALSE)    \* no flags

WS0 == Cls(Spaces, 0, -1)          \* \s*
WS1 == Cls(Spaces, 1, -1)          \* \s+
\* ([\d\.,]+) and (\d+) as group g
NumG(g) == Grp(g, Cls(NumSep, 1, -1))
IntG(g) == Grp(g, Cls(Digits, 1, -1))

\* len(s) in characters, for a str held as symbols
RECURSIVE CharLen(_)
CharLen(s) ==
    IF s = <<>> THEN 0
    ELSE IF Len(s) = 1 THEN Len(s[1])
    ELSE CharLen(SubSeq(s, 1, Len(s) \div 2)) + CharLen(SubSeq(s, (Len(s) \div 2) + 1, Len(s)))

\* s[:n], cut at the last symbol that fits
TakeChars(s, n) ==
    SubSeq(s, 1, CHOOSE k \in 0..Len(s) :
                    /\ CharLen(SubSeq(s, 1, k)) <= n
                    /\ k = Len(s) \/ CharLen(SubSeq(s, 1, k + 1)) > n)

\* s.split(sep) for a one-symbol separator
SplitOn(s, sep) ==
    LET cuts   == {i \in 1..Len(s) : s[i] = sep}
        Cut(k) == IF k = 0 THEN 0
                  ELSE IF k > Cardinality(cuts) THEN Len(s) + 1
                  ELSE CHOOSE i \in cuts : Cardinality({j \in cuts : j < i}) = k - 1
    IN  [k \in 1..(Cardinality(cuts) + 1) |-> SubSeq(s, Cut(k - 1) + 1, Cut(k) - 1)]

\* re.sub(pattern, "", text, flags)
RECURSIVE ReDeleteFrom(_, _, _, _)
ReDeleteFrom(pat, text, start, fl) ==
    LET m == SearchFrom(pat, text, start, fl)
    IN  IF ~m.ok THEN SubSeq(text, start, Len(text))
        ELSE SubSeq(text, start, m.start - 1)
                \o (IF m.end > m.start
                    THEN ReDeleteFrom(pat, text, m.end, fl)
                    ELSE IF m.end > Len(text) THEN <<>>
                    ELSE <<text[m.end]>> \o ReDeleteFrom(pat, text, m.end + 1, fl))

\* int(s) printed back: the decimal digits without leading zeros
RECURSIVE IntDigits(_)
IntDigits(s) == IF Len(s) > 1 /\ Head(s) = "0" THEN IntDigits(Tail(s)) ELSE s

\* int(s) for a digit string
RECURSIVE StrToInt(_)
StrToInt(s) ==
    IF s = <<>> THEN 0
    ELSE 10 * StrToInt(SubSeq(s, 1, Len(s) - 1))
         + (CHOOSE d \in 0..9 : ToString(d) = s[Len(s)])

\* clean_text (lines 18-22)
clean_text(text) == IF text = <<>> THEN <<>> ELSE Join(<<" ">>, Split(text))

\* "20\d{2}-20\d{2}"
YearSpan == Lit(<<"2", "0">>) \o Cls(Digits, 2, 2) \o Lit(<<"-", "2", "0">>) \o Cls(Digits, 2, 2)

\* extract_academic_year with the filename consulted before the header
extract_academic_year_filefirst(text, filename) ==
    LET m1 == ReSearch(Lit(<<"CURSO ACADÉMICO", " ">>) \o Grp(1, YearSpan), text, IC)
        m2 == ReSearch(YearSpan, filename, PLAIN)
    IN  IF m2.ok THEN Group(filename, m2, 0)
        ELSE IF m1.ok THEN Group(text, m1, 1)
        ELSE <<"Desconocido">>

\* extract_academic_year (lines 24-41)
extract_academic_year(text, filename) ==
    LET m1 == ReSearch(Lit(<<"CURSO ACADÉMICO", " ">>) \o Grp(1, YearSpan), text, IC)
        m2 == ReSearch(YearSpan, filename, PLAIN)
        m3 == ReSearch(Lit(<<"2", "0">>) \o Cls(Digits, 2, 2) \o Lit(<<"-">>) \o Cls(Digits, 2, 2),
                       filename, PLAIN)
    IN  IF m1.ok THEN Group(text, m1, 1)
        ELSE IF m2.ok THEN Group(filename, m2, 0)
        ELSE IF m3.ok
        THEN LET parts == SplitOn(Group(filename, m3, 0), "-")
             IN  <<"2", "0">> \o SubSeq(parts[1], 3, Len(parts[1])) \o <<"-", "2", "0">> \o parts[2]
        ELSE <<"Desconocido">>

\* extract_programs (lines 43-68)
extract_programs(text) ==
    LET match == ReSearch(Lit(<<"Artículo", " ", "3", ".", " ", "Enseñanzas comprendidas", ".">>)
                              \o Grp(1, Lazy) \o Lit(<<"CAPÍTULO", " ", "II">>), text, ICS)
        content0 == Group(text, match, 1)
        content1 == ReDeleteFrom(Lit(<<"CSV", " ", ":">>) \o Dots, content0, 1, PLAIN)
        content2 == ReDeleteFrom(Lit(<<"FIRMANTE">>) \o Dots, content1, 1, PLAIN)
        content3 == ReDeleteFrom(Lit(<<"DIRECCIÓN DE VALIDACIÓN">>) \o Dots, content2, 1, PLAIN)
        lines    == SplitOn(content3, "\n")
        stripped == [i \in 1..Len(lines) |-> Strip(lines[i])]
        programs == IF match.ok
                    THEN SelectSeq(stripped, LAMBDA line :
                            /\ CharLen(line) > 10
                            /\ ~IsDigitStr(line)
                            /\ "Página" \notin Range(line))
                    ELSE <<>>
        full_text == clean_text(Join(<<" ">>, programs))
    IN  IF full_text # <<>> THEN full_text ELSE NoDetectado

\* ".*?:?\s*([\d\.,]+)\s*euros" after a label (lines 75, 79, 83)
LabelledAmount(label) ==
    Lit(label) \o Lazy \o Cls({":"}, 0, 1) \o WS0 \o NumG(1) \o WS0 \o Lit(<<"euros">>)

\* m.group(g) if m else "No detectado"
GroupOrSentinel(text, m, g) == IF m.ok THEN JStr(Group(text, m, g)) ELSE JStr(NoDetectado)

\* extract_amounts (lines 70-105): the six monetary fields
extract_amounts(text) ==
    LET renta_match == ReSearch(LabelledAmount(<<"Cuantía fija ligada a la", " ", "renta">>), text, IC)
        residencia_match ==
            ReSearch(LabelledAmount(<<"Cuantía fija ligada a la", " ", "residencia">>), text, IC)
        basica_match == ReSearch(LabelledAmount(<<"Beca básica">>), text, IC)
        variable1 == ReSearch(Lit(<<"cuantía variable">>) \o Lazy \o Lit(<<"importe", " ", "mínimo">>)
                                \o Lazy \o NumG(1) \o WS0 \o Lit(<<"euros">>), text, IC)
        variable2 == ReSearch(Lit(<<"cuantía variable">>) \o Lazy \o Lit(<<"mínimo", " ", "será", " ", "de">>)
                                \o WS0 \o NumG(1) \o WS0 \o Lit(<<"euros">>), text, IC)
        variable_match == IF variable1.ok THEN variable1 ELSE variable2
        excelencia_match ==
            ReSearch(Lit(<<"excelencia académica">>) \o Lazy \o Lit(<<":">>) \o Lazy
                        \o Lit(<<"entre">>) \o WS0 \o NumG(1) \o WS0 \o Lit(<<"y">>) \o WS0
                        \o NumG(2) \o WS0 \o Lit(<<"euros">>), text, ICS)
        min_match == ReSearch(Lit(<<"5", "0">>) \o WS0 \o Lit(<<"euros">>), text, PLAIN)
        max_match == ReSearch(Lit(<<"1", "2", "5">>) \o WS0 \o Lit(<<"euros">>), text, PLAIN)
    IN  [cuantia_renta_fija |-> GroupOrSentinel(text, renta_match, 1),
         cuantia_residencia |-> GroupOrSentinel(text, residencia_match, 1),
         beca_basica |-> GroupOrSentinel(text, basica_match, 1),
         cuantia_variable_minima |->
            IF variable_match.ok THEN JStr(Group(text, variable_match, 1))
            ELSE JStr(<<"6", "0", ",", "0", "0">>),
         excelencia_min |->
            IF excelencia_match.ok THEN JStr(Group(text, excelencia_match, 1))
            ELSE IF min_match.ok THEN JStr(<<"5", "0">>) ELSE JStr(NoDetectado),
         excelencia_max |->
            IF excelencia_match.ok THEN JStr(Group(text, excelencia_match, 2))
            ELSE IF max_match.ok THEN JStr(<<"1", "2", "5">>) ELSE JStr(NoDetectado)]

\* the word symbols [a-z]+ and \w+ can match (with re.IGNORECASE for [a-z])
AsciiWords == {"un", "dos", "tres", "cuatro", "de", "y", "s", "mayo", "euros", "miembro"}
WordSyms   == AsciiWords \cup Digits \cup {"_"}

\* d[k] = v on the items of a dict
DictPut(items, k, v) ==
    IF \E i \in 1..Len(items) : items[i].k = k
    THEN [i \in 1..Len(items) |-> IF items[i].k = k THEN KV(k, v) ELSE items[i]]
    ELSE Append(items, KV(k, v))

\* the sanity bound on a member count (lines 150, 161)
MemberBound == 20
\* the window after the section start when no end is found (line 121)
ThresholdWindow == 5000

\* t_vals of one "Umbral i" section (lines 133-135)
RECURSIVE MemberVals(_, _, _)
MemberVals(section_text, matches, t_vals) ==
    IF matches = <<>> THEN t_vals
    ELSE MemberVals(section_text, Tail(matches),
                    DictPut(t_vals, Group(section_text, Head(matches), 1),
                            JStr(Group(section_text, Head(matches), 2))))

\* Strategy A for tiers i..3 (lines 126-138): the items of thresholds
RECURSIVE TierList(_, _)
TierList(content, i) ==
    IF i > 3 THEN <<>>
    ELSE LET umbral_key == <<"Umbral", " ", ToString(i)>>
             section_match ==
                ReSearch(Lit(umbral_key) \o Lit(<<":">>) \o Grp(1, Lazy)
                            \o Alt(<<Lit(<<"Umbral", " ", ToString(i + 1)>>),
                                     Lit(<<"Artículo", " ", "2", "0">>),
                                     EndAnchor>>), content, ICS)
             section_text == Group(content, section_match, 1)
             members_matches ==
                FindIter(Lit(<<"Familias de", " ">>)
                            \o Grp(1, Alt(<<Cls(AsciiWords, 1, -1), Cls(Digits, 1, -1)>>))
                            \o Lit(<<" ", "miembro">>) \o Cls({"s"}, 0, 1) \o Cls({":"}, 0, 1)
                            \o WS0 \o NumG(2) \o WS0 \o Lit(<<"euros">>), section_text, IC)
             t_vals == IF section_match.ok THEN MemberVals(section_text, members_matches, <<>>)
                       ELSE <<>>
         IN  (IF t_vals # <<>> THEN <<KV(umbral_key, JDict(t_vals))>> ELSE <<>>)
                \o TierList(content, i + 1)

\* looks_like_amount (lines 507-510); idx counts from 1
looks_like_amount(lines, idx) ==
    IF idx > Len(lines) THEN FALSE
    ELSE ReMatch(Cls(Digits \cup {"."}, 1, -1) \o EndAnchor, Strip(lines[idx]), PLAIN).ok

\* Lookahead mutated: the break of line 168 comes before the increment
RECURSIVE Lookahead_earlybreak(_, _, _, _)
Lookahead_earlybreak(lines, i, lookahead, vals) ==
    IF looks_like_amount(lines, i + lookahead)
    THEN LET vals2 == Append(vals, Strip(lines[i + lookahead]))
         IN  IF Len(vals2) >= 3
             THEN [vals |-> vals2, lookahead |-> lookahead]
             ELSE Lookahead_earlybreak(lines, i, lookahead + 1, vals2)
    ELSE [vals |-> vals, lookahead |-> lookahead]

\* the inner while of lines 165-168: the amount lines after line i
RECURSIVE Lookahead(_, _, _, _)
Lookahead(lines, i, lookahead, vals) ==
    IF looks_like_amount(lines, i + lookahead)
    THEN LET vals2 == Append(vals, Strip(lines[i + lookahead]))
         IN  IF Len(vals2) >= 3
             THEN [vals |-> vals2, lookahead |-> lookahead + 1]
             ELSE Lookahead(lines, i, lookahead + 1, vals2)
    ELSE [vals |-> vals, lookahead |-> lookahead]

TableRow(miembros, u1, u2, u3) ==
    JDict(<<KV(<<"miembros">>, JStr(miembros)), KV(<<"umbral_", "1">>, JStr(u1)),
            KV(<<"umbral_", "2">>, JStr(u2)), KV(<<"umbral_", "3">>, JStr(u3))>>)

\* one pass of the while loop of lines 146-181 at line i: the row appended
\* if any, the next value of i, and the lines the row was read from
TableStep(lines, i) ==
    LET line == Strip(lines[i])
        NumDot == Cls(Digits \cup {"."}, 1, -1)
        table_match ==
           ReMatch(IntG(1) \o WS1 \o Grp(2, NumDot) \o WS1 \o Grp(3, NumDot)
                       \o Opt(WS1 \o Grp(4, NumDot)), line, PLAIN)
        bare == ReMatch(Cls(Digits, 1, -1) \o EndAnchor, line, PLAIN)
        la == Lookahead(lines, i, 1, <<>>)
    IN  IF table_match.ok /\ StrToInt(Group(line, table_match, 1)) < MemberBound
        THEN [rows |-> <<TableRow(Group(line, table_match, 1), Group(line, table_match, 2),
                                  Group(line, table_match, 3),
                                  IF HasGroup(table_match, 4)
                                        /\ Group(line, table_match, 4) # <<>>
                                  THEN Group(line, table_match, 4) ELSE <<"N/A">>)>>,
              next |-> i + 1,
              read |-> {i}]
        ELSE IF bare.ok /\ StrToInt(line) < MemberBound /\ Len(la.vals) >= 2
        THEN [rows |-> <<TableRow(line, la.vals[1], la.vals[2],
                                  IF Len(la.vals) > 2 THEN la.vals[3] ELSE <<"N/A">>)>>,
              next |-> i + la.lookahead,
              read |-> i..(i + Len(la.vals))]
        ELSE [rows |-> <<>>, next |-> i + 1, read |-> {}]

\* Strategy B, the while loop of lines 143-181 from line i on: table_data
RECURSIVE TableData(_, _)
TableData(lines, i) ==
    IF i > Len(lines) THEN <<>>
    ELSE TableStep(lines, i).rows \o TableData(lines, TableStep(lines, i).next)

\* extract_thresholds mutated: Strategy B runs whatever Strategy A found
extract_thresholds_bothstrategies(text) ==
    LET match == ReSearch(Lit(<<"Artículo", " ">>) \o Cls({"1"}, 0, 1)
                            \o Lit(<<"9", ".", " ", "Umbrales de renta">>) \o Lazy, text, IC)
        rest      == SubSeq(text, match.end, Len(text))
        end_match == ReSearch(Lit(<<"Artículo", " ">>) \o Cls({"2"}, 0, 1) \o Lit(<<"0", ".">>),
                              rest, PLAIN)
        content   == IF end_match.ok THEN SubSeq(rest, 1, end_match.start - 1)
                     ELSE TakeChars(rest, ThresholdWindow)
        tiers      == TierList(content, 1)
        table_data == TableData(SplitOn(content, "\n"), 1)
    IN  IF ~match.ok THEN JStr(NoDetectado)
        ELSE JDict(tiers \o (IF table_data # <<>>
                             THEN <<KV(<<"tabla">>, JList(table_data))>> ELSE <<>>))

\* extract_thresholds (lines 107-186)
extract_thresholds(text) ==
    LET match == ReSearch(Lit(<<"Artículo", " ">>) \o Cls({"1"}, 0, 1)
                            \o Lit(<<"9", ".", " ", "Umbrales de renta">>) \o Lazy, text, IC)
        rest      == SubSeq(text, match.end, Len(text))
        end_match == ReSearch(Lit(<<"Artículo", " ">>) \o Cls({"2"}, 0, 1) \o Lit(<<"0", ".">>),
                              rest, PLAIN)
        content   == IF end_match.ok THEN SubSeq(rest, 1, end_match.start - 1)
                     ELSE TakeChars(rest, ThresholdWindow)
        tiers      == TierList(content, 1)
        table_data == TableData(SplitOn(content, "\n"), 1)
    IN  IF ~match.ok THEN JStr(NoDetectado)
        ELSE IF tiers # <<>> THEN JDict(tiers)
        ELSE IF table_data # <<>> THEN JDict(<<KV(<<"tabla">>, JList(table_data))>>)
        ELSE JDict(<<>>)

\* result[key] = m.group(g) when m matched
FieldIf(key, text, m, g) == IF m.ok THEN <<KV(<<key>>, JStr(Group(text, m, g)))>> ELSE <<>>

\* "result if result else 'No detectado'"
DictOrSentinel(items) == IF items # <<>> THEN JDict(items) ELSE JStr(NoDetectado)

\* extract_patrimonio_thresholds (lines 188-220)
extract_patrimonio_thresholds(text) ==
    LET match1 == ReSearch(Lit(<<"Artículo", " ", "2", "0", ".">>) \o Lazy
                            \o Lit(<<"Umbrales indicativos de patrimonio familiar", ".">>)
                            \o Grp(1, Lazy) \o Lit(<<"Artículo", " ", "2", "1", ".">>), text, ICS)
        match2 == ReSearch(Lit(<<"umbrales indicativos de patrimonio familiar", ".">>)
                            \o Grp(1, Lazy)
                            \o Alt(<<Lit(<<"Artículo", " ", "2", "1">>), Lit(<<"CAPÍTULO">>)>>),
                           text, ICS)
        match   == IF match1.ok THEN match1 ELSE match2
        content == clean_text(Group(text, match, 1))
        Amount  == NumG(1) \o WS0 \o Lit(<<"euros">>)
        urban   == ReSearch(Lit(<<"fincas urbanas">>) \o Lazy \o Lit(<<"superar">>) \o Lazy
                                \o Amount, content, IC)
        rural_const ==
            ReSearch(Lit(<<"construcciones situadas en", " ", "fincas rústicas">>) \o Lazy
                        \o Lit(<<"superar">>) \o Lazy \o Amount, content, IC)
        rural_land ==
            ReSearch(Lit(<<"fincas rústicas", " ", "excluidos">>) \o Lazy \o Lit(<<"superar">>)
                        \o Lazy \o Amount \o Lazy \o Lit(<<"miembro">>), content, IC)
        capital == ReSearch(Lit(<<"capital mobiliario">>) \o Lazy \o Lit(<<"superar">>) \o WS0
                                \o Amount, content, IC)
    IN  IF ~match.ok THEN JStr(NoDetectado)
        ELSE DictOrSentinel(FieldIf("fincas_urbanas_limite", content, urban, 1)
                \o FieldIf("construcciones_rusticas_limite", content, rural_const, 1)
                \o FieldIf("fincas_rusticas_limite_por_miembro", content, rural_land, 1)
                \o FieldIf("capital_mobiliario_limite", content, capital, 1))

\* the pass rates of lines 241-255: the items of pass_rates
PassRates(text) ==
    LET Tail1 == WS0 \o Cls({"."} \cup Spaces, 0, -1) \o Cls({"\n"}, 0, 1) \o WS0 \o IntG(1)
                    \o WS0 \o Lit(<<"%">>)
        areas == <<[p |-> Lit(<<"Artes y Humanidades">>) \o Tail1, n |-> "Artes y Humanidades"],
                   [p |-> Lit(<<"Ciencias">>) \o Tail1, n |-> "Ciencias"],
                   [p |-> Lit(<<"Ciencias", " ", "Sociales y Jurídicas">>) \o Tail1,
                    n |-> "Ciencias Sociales y Jurídicas"],
                   [p |-> Lit(<<"Ciencias", " ", "de la Salud">>) \o Tail1,
                    n |-> "Ciencias de la Salud"],
                   [p |-> Lit(<<"Ingeniería o Arquitectura">>) \o Lazy \o Cls({"\n"}, 0, 1)
                            \o WS0 \o IntG(1) \o WS0 \o Lit(<<"%">>),
                    n |-> "Ingeniería y Arquitectura"]>>
        Rate(a) == LET m == ReSearch(a.p, text, IC)
                   IN  IF m.ok THEN <<KV(<<a.n>>, JStr(Group(text, m, 1) \o <<"%">>))>> ELSE <<>>
    IN  Rate(areas[1]) \o Rate(areas[2]) \o Rate(areas[3]) \o Rate(areas[4]) \o Rate(areas[5])

\* extract_academic_requirements (lines 222-258)
extract_academic_requirements(text) ==
    LET credits_match ==
            ReSearch(Lit(<<"matriculado">>) \o Cls({"s"}, 0, 1) \o Lazy \o Lit(<<"de">>) \o WS1
                        \o IntG(1) \o WS1 \o Lit(<<"créditos">>) \o Lazy \o Lit(<<"tiempo">>)
                        \o WS1 \o Lit(<<"completo">>), text, ICS)
        partial_match ==
            ReSearch(Alt(<<Lit(<<"matrícula parcial">>),
                           Lit(<<"matricularse de un mínimo", " ", "de">>)>>)
                        \o WS0 \o Lazy \o IntG(1) \o WS1 \o Lit(<<"créditos">>), text, ICS)
        entry_match ==
            ReSearch(Lit(<<"requerirá">>) \o Lazy \o Lit(<<"nota de">>) \o WS1
                        \o Grp(1, Cls(Digits \cup {","}, 1, -1)) \o WS1 \o Lit(<<"puntos">>)
                        \o Lazy \o Lit(<<"acceso">>), text, ICS)
        pass_rates == PassRates(text)
    IN  DictOrSentinel(
            (IF credits_match.ok
             THEN <<KV(<<"creditos_tiempo_completo">>, JInt(IntDigits(Group(text, credits_match, 1))))>>
             ELSE <<>>)
            \o (IF partial_match.ok
                THEN <<KV(<<"creditos_matricula_parcial">>,
                          JInt(IntDigits(Group(text, partial_match, 1))))>>
                ELSE <<>>)
            \o FieldIf("nota_acceso_universidad", text, entry_match, 1)
            \o (IF pass_rates # <<>>
                THEN <<KV(<<"porcentaje_creditos_por_rama">>, JDict(pass_rates))>>
                ELSE <<>>))

\* extract_excellence_brackets (lines 260-280)
extract_excellence_brackets(text) ==
    LET Tail1 == WS1 \o Lit(<<"puntos">>) \o WS0 \o Cls({"\n"}, 0, 1) \o WS0 \o IntG(1)
                    \o WS0 \o Lit(<<"euros">>)
        Between(a, b) == Opt(Lit(<<"Entre">>) \o WS1) \o Lit(a) \o WS1 \o Lit(<<"y">>) \o WS1
                            \o Lit(b) \o Tail1
        bracket_patterns ==
            <<[p |-> Between(<<"8", ",", "0", "0">>, <<"8", ",", "4", "9">>),
               r |-> <<"8", ".", "0", "0", "-", "8", ".", "4", "9">>],
              [p |-> Between(<<"8", ",", "5", "0">>, <<"8", ",", "9", "9">>),
               r |-> <<"8", ".", "5", "0", "-", "8", ".", "9", "9">>],
              [p |-> Between(<<"9", ",", "0", "0">>, <<"9", ",", "4", "9">>),
               r |-> <<"9", ".", "0", "0", "-", "9", ".", "4", "9">>],
              [p |-> Lit(<<"9", ",", "5", "0">>) \o WS1 \o Lit(<<"puntos">>) \o WS1 \o Lit(<<"o">>)
                        \o WS1 \o Lit(<<"más">>) \o WS0 \o Cls({"\n"}, 0, 1) \o WS0 \o IntG(1)
                        \o WS0 \o Lit(<<"euros">>),
               r |-> <<"9", ".", "5", "0", "+">>]>>
        Bracket(b) == LET m == ReSearch(b.p, text, IC)
                      IN  IF m.ok
                          THEN <<JDict(<<KV(<<"nota_media">>, JStr(b.r)),
                                         KV(<<"cuantia_euros">>, JInt(IntDigits(Group(text, m, 1))))>>)>>
                          ELSE <<>>
        brackets == Bracket(bracket_patterns[1]) \o Bracket(bracket_patterns[2])
                        \o Bracket(bracket_patterns[3]) \o Bracket(bracket_patterns[4])
    IN  IF brackets # <<>> THEN JList(brackets) ELSE JStr(NoDetectado)

\* extract_insular_supplements (lines 282-316)
extract_insular_supplements(text) ==
    LET match == ReSearch(Lit(<<"Artículo", " ", "1", "2", ".">>) \o Lazy
                            \o Alt(<<Lit(<<"domicilio insular">>), Lit(<<"Cuantías adicionales">>)>>)
                            \o Grp(1, Lazy) \o Lit(<<"Artículo", " ", "1", "3", ".">>), text, ICS)
        content == Group(text, match, 1)
        Amount  == NumG(1) \o WS0 \o Lit(<<"euros">>)
        Islands == Lazy \o Alt(<<Lit(<<"Lanzarote">>), Lit(<<"Fuerteventura">>)>>)
        basic   == ReSearch(Lit(<<"dispondrán de">>) \o WS0 \o Amount, content, ICS)
        remote1 == ReSearch(Alt(<<Lit(<<"adicional", " ", "será", " ", "de">>),
                                  Lit(<<"adicional", " ", "de">>)>>)
                                \o WS0 \o Amount \o Islands, content, ICS)
        remote2 == ReSearch(Amount \o Islands, content, ICS)
        remote  == IF remote1.ok THEN remote1 ELSE remote2
        peninsula_amounts ==
            FindIter(Lit(<<"serán">>) \o WS0 \o Opt(Lit(<<"de">>) \o WS0) \o NumG(1) \o WS0
                        \o Lit(<<"euros">>) \o WS0 \o Lit(<<"y">>) \o WS0 \o NumG(2) \o WS0
                        \o Lit(<<"euros">>), content, ICS)
        fp_extra == ReSearch(Lit(<<"incrementarán en">>) \o WS0 \o Amount, content, ICS)
    IN  IF ~match.ok THEN JStr(NoDetectado)
        ELSE DictOrSentinel(FieldIf("suplemento_insular_basico", content, basic, 1)
                \o FieldIf("suplemento_islas_remotas", content, remote, 1)
                \o (IF peninsula_amounts # <<>>
                    THEN FieldIf("suplemento_interinsular_peninsula", content,
                                 peninsula_amounts[1], 1)
                         \o FieldIf("suplemento_interinsular_peninsula_remotas", content,
                                    peninsula_amounts[1], 2)
                    ELSE <<>>)
                \o FieldIf("suplemento_fp_canarias", content, fp_extra, 1))

\* extract_income_deductions (lines 318-370)
extract_income_deductions(text) ==
    LET ded_match == ReSearch(Lit(<<"deducciones siguientes", ":">>) \o Grp(1, Lazy)
                                \o Alt(<<Lit(<<"Artículo", " ">>) \o Cls(Digits, 1, -1) \o Lit(<<".">>),
                                         Lit(<<"CAPÍTULO">>)>>), text, ICS)
        ded_text == IF ded_match.ok THEN Group(text, ded_match, 1) ELSE text
        Amount   == NumG(1) \o WS0 \o Lit(<<"euros">>)
        Lettered(c) == Lit(<<c, ")">>) \o WS0 \o Amount \o Lazy
        familia_gral ==
            ReSearch(Grp(1, Cls(Digits, 1, 1) \o Cls(NumSep, 0, -1)) \o WS0 \o Lit(<<"euros">>)
                        \o Lazy \o Lit(<<"familias numerosas de", " ", "categoría general">>),
                     ded_text, ICS)
        familia_esp1 == ReSearch(Lit(<<"categoría general", " ", "y">>) \o WS0 \o Amount,
                                 ded_text, ICS)
        familia_esp2 ==
            ReSearch(Amount \o Lazy \o Lit(<<"familias numerosas de", " ", "categoría especial">>),
                     ded_text, ICS)
        familia_esp == IF familia_esp1.ok THEN familia_esp1 ELSE familia_esp2
        disc_33 == ReSearch(Lettered("c") \o Lit(<<"discapacidad">>) \o Lazy
                                \o Lit(<<"treinta y tres">>), ded_text, ICS)
        disc_65 == ReSearch(Lit(<<"treinta y tres", " ", "por">>) \o WS0 \o Lit(<<"ciento">>)
                                \o WS0 \o Lit(<<"y">>) \o WS0 \o Amount, ded_text, ICS)
        disc_uni == ReSearch(Lit(<<"dicho solicitante">>) \o WS0 \o Lit(<<"será">>) \o WS0
                                \o Lit(<<"de">>) \o WS0 \o Amount, ded_text, ICS)
        hermano_fuera == ReSearch(Lettered("d") \o Lit(<<"hermano">>) \o Lazy
                                    \o Lit(<<"resida fuera">>), ded_text, ICS)
        huerfano == ReSearch(Lit(<<"e", ")">>) \o WS0 \o Opt(Lit(<<"El">>) \o WS0) \o IntG(1)
                                \o WS0 \o Alt(<<Lit(<<"%">>),
                                                Lit(<<"por">>) \o WS0 \o Lit(<<"ciento">>)>>),
                             ded_text, ICS)
        mono == ReSearch(Lettered("f") \o Lit(<<"monoparental">>), ded_text, ICS)
    IN  DictOrSentinel(FieldIf("deduccion_familia_numerosa_general", ded_text, familia_gral, 1)
            \o FieldIf("deduccion_familia_numerosa_especial", ded_text, familia_esp, 1)
            \o FieldIf("deduccion_discapacidad_33", ded_text, disc_33, 1)
            \o FieldIf("deduccion_discapacidad_65", ded_text, disc_65, 1)
            \o FieldIf("deduccion_discapacidad_65_universitario", ded_text, disc_uni, 1)
            \o FieldIf("deduccion_hermano_universitario_fuera", ded_text, hermano_fuera, 1)
            \o (IF huerfano.ok
                THEN <<KV(<<"deduccion_huerfano_porcentaje">>,
                          JStr(Group(ded_text, huerfano, 1) \o <<"%">>))>>
                ELSE <<>>)
            \o FieldIf("deduccion_familia_monoparental", ded_text, mono, 1))

\* extract_disability_provisions (lines 372-398)
extract_disability_provisions(text) ==
    LET match == ReSearch(Lit(<<"Artículo", " ", "1", "3", ".">>) \o Lazy
                            \o Alt(<<Lit(<<"discapacidad">>), Lit(<<"Becas especiales">>)>>)
                            \o Grp(1, Lazy) \o Lit(<<"Artículo", " ", "1", "4", ".">>), text, ICS)
        content == clean_text(Group(text, match, 1))
        PorCiento == Lit(<<" ", "por">>) \o WS0 \o Lit(<<"ciento">>)
        reduce1 == ReSearch(Lit(<<"6", "5">>) \o PorCiento \o Lazy \o Lit(<<"reducir">>) \o Lazy
                                \o Lit(<<"carga lectiva">>), content, IC)
        reduce2 == ReSearch(Lit(<<"discapacidad">>) \o Lazy \o Lit(<<"6", "5">>) \o Lazy
                                \o Lit(<<"reducir">>), content, IC)
        incr_25a == ReSearch(Lit(<<"incremento">>) \o Lazy \o IntG(1) \o PorCiento \o Lazy
                                \o Lit(<<"discapacidad">>) \o Lazy \o Lit(<<"2", "5">>) \o Lazy
                                \o Lit(<<"6", "5">>), content, IC)
        incr_25b == ReSearch(IntG(1) \o PorCiento \o Lazy
                                \o Lit(<<"discapacidad", " ", "igual o superior al", " ", "2", "5">>),
                             content, IC)
        incr_25 == IF incr_25a.ok THEN incr_25a ELSE incr_25b
        incr_50 == ReSearch(Lit(<<"incrementarán en", " ", "un", " ">>) \o IntG(1) \o PorCiento,
                            content, IC)
        Pct(key, m) == IF m.ok
                       THEN <<KV(<<key>>, JStr(Group(content, m, 1) \o <<"%">>))>>
                       ELSE <<>>
    IN  IF ~match.ok THEN JStr(NoDetectado)
        ELSE DictOrSentinel(
                (IF reduce1.ok \/ reduce2.ok
                 THEN <<KV(<<"reduccion_carga_lectiva">>,
                           JStr(<<"Discapacidad", " ", ">=", " ", "6", "5", "%">>))>>
                 ELSE <<>>)
                \o Pct("incremento_discapacidad_25_65", incr_25)
                \o Pct("incremento_matricula_completa_discapacidad", incr_50))

\* the length of texto_extracto (line 428)
ExtractoLen == 200

\* extract_deadlines (lines 400-432)
extract_deadlines(text) ==
    LET match1 == ReSearch(Opt(Lit(<<"Artículo", " ">>) \o Cls(Digits, 1, -1) \o Lit(<<".">>) \o WS0)
                            \o Opt(Lit(<<"Lugar y", " ">>))
                            \o Lit(<<"Plazo de presentación de solicitudes", ".">>)
                            \o Grp(1, Lazy) \o Alt(<<Lit(<<"Artículo">>), Lit(<<"CAPÍTULO">>)>>),
                           text, ICS)
        content1 == IF match1.ok THEN Group(text, match1, 1) ELSE <<>>
        match2 == ReSearch(Lit(<<"plazo">>) \o Cls({"s"}, 0, 1)
                            \o Lit(<<" ", "para presentar la solicitud">>) \o Lazy
                            \o Look(Lit(<<".", " ">>) \o Cls(Digits, 1, 1)), text, ICS)
        content == IF content1 # <<>> THEN content1
                   ELSE IF match2.ok THEN Group(text, match2, 0) ELSE <<>>
        content_clean == clean_text(content)
        Date  == Grp(1, Cls(Digits, 1, 2) \o Lit(<<" ", "de", " ">>) \o Cls(WordSyms, 1, -1)
                        \o Lit(<<" ", "de", " ">>) \o Cls(Digits, 4, 4))
        Until == Lazy \o Alt(<<Lit(<<"hasta el">>), Lit(<<"día">>)>>) \o WS0 \o Date
        dates == FindIter(Date, content_clean, PLAIN)
        uni1  == ReSearch(Lit(<<"estudiantes universitarios">>) \o Until, content_clean, IC)
        uni2  == ReSearch(Date \o Lazy \o Lit(<<"estudiantes universitarios">>), content_clean, IC)
        uni_match == IF uni1.ok THEN uni1 ELSE uni2
        non1  == ReSearch(Lit(<<"estudiantes no universitarios">>) \o Until, content_clean, IC)
        non2  == ReSearch(Date \o Lazy \o Lit(<<"estudiantes no universitarios">>),
                          content_clean, IC)
        non_uni_match == IF non1.ok THEN non1 ELSE non2
    IN  IF content # <<>>
        THEN JDict(<<KV(<<"fechas_encontradas">>,
                        JList([i \in 1..Len(dates) |-> JStr(Group(content_clean, dates[i], 1))]))>>
                    \o FieldIf("universitarios", content_clean, uni_match, 1)
                    \o FieldIf("no_universitarios", content_clean, non_uni_match, 1)
                    \o <<KV(<<"texto_extracto">>, JStr(TakeChars(content_clean, ExtractoLen)))>>)
        ELSE JDict(<<KV(<<"status">>, JStr(NoDetectado))>>)

\* the dictionary of lines 451-464
BuildInfo(name, texto_completo) ==
    [fichero |-> JStr(name),
     curso_academico |-> JStr(extract_academic_year(texto_completo, name)),
     programas_educativos |-> JStr(extract_programs(texto_completo))]
    @@ extract_amounts(texto_completo)
    @@ [excelencia_tramos |-> extract_excellence_brackets(texto_completo),
        umbrales_renta |-> extract_thresholds(texto_completo),
        umbrales_patrimonio |-> extract_patrimonio_thresholds(texto_completo),
        requisitos_academicos |-> extract_academic_requirements(texto_completo),
        suplementos_insulares |-> extract_insular_supplements(texto_completo),
        deducciones_renta |-> extract_income_deductions(texto_completo),
        discapacidad |-> extract_disability_provisions(texto_completo),
        plazos_solicitud |-> extract_deadlines(texto_completo)]

\* json.dumps(v, ensure_ascii=False)
RECURSIVE JsonDumps(_)
JsonDumps(v) ==
    CASE v.t = "str"  -> <<"\"">> \o v.s \o <<"\"">>
      [] v.t = "int"  -> v.s
      [] v.t = "list" ->
            <<"[">> \o Join(<<",", " ">>, [i \in 1..Len(v.items) |-> JsonDumps(v.items[i])])
                    \o <<"]">>
      [] v.t = "dict" ->
            <<"{">> \o Join(<<",", " ">>,
                            [i \in 1..Len(v.items) |->
                                <<"\"">> \o v.items[i].k \o <<"\"", ":", " ">>
                                    \o JsonDumps(v.items[i].v)])
                    \o <<"}">>

\* the length above which the CSV trims programas_educativos (line 494)
ProgramasLen == 500

\* the CSV row of one record (lines 485-495)
CsvRow(item) ==
    [f \in DOMAIN item |->
        IF f = "programas_educativos" /\ CharLen(item[f].s) > ProgramasLen
        THEN TakeChars(item[f].s, ProgramasLen) \o <<"...">>
        ELSE IF item[f].t \in {"dict", "list"} THEN JsonDumps(item[f])
        ELSE item[f].s]

-----------------------------------------------------------------------------
(* generador_resumenes.py *)

\* max_tokens of a remote request (line 80)
MaxTokens == 4096
\* temperature 0.3, in hundredths (line 85)
Temperature == 30

\* build_prompt_single (lines 19-36) and build_prompt_combined (lines 38-53):
\* the instructions are fixed text, the prompt varies with the data alone
build_prompt_single(year_data) == [kind |-> "single", data |-> <<year_data>>]
build_prompt_combined(all_data) == [kind |-> "combined", data |-> all_data]

\* DeepseekRequest mutated: the temperature is set for every model
DeepseekRequest_alltemp(prompt, model) ==
    [model |-> model, prompt |-> prompt, max_tokens |-> MaxTokens, temperature |-> Temperature]

\* kwargs of generate_deepseek (lines 74-85)
DeepseekRequest(prompt, model) ==
    [model |-> model, prompt |-> prompt, max_tokens |-> MaxTokens]
    @@ (IF model # "deepseek-reasoner"
        THEN [temperature |-> Temperature]
        ELSE [x \in {} |-> 0])

\* generate_deepseek mutated: the reasoning trace is stored whatever it is
generate_deepseek_anytrace(response, model) ==
    [text |-> response.content, model |-> model, time_seconds |-> response.elapsed,
     tokens_input |-> response.prompt_tokens, tokens_output |-> response.completion_tokens,
     reasoning_content |-> response.reasoning]

\* generate_deepseek after the backend answered (lines 92-105)
generate_deepseek(response, model) ==
    [text |-> response.content, model |-> model, time_seconds |-> response.elapsed,
     tokens_input |-> response.prompt_tokens, tokens_output |-> response.completion_tokens]
    @@ (IF response.reasoning # <<>>
        THEN [reasoning_content |-> response.reasoning]
        ELSE [x \in {} |-> 0])

\* generate_local after the model generated (lines 152-158)
generate_local(response, model_name) ==
    [text |-> response.content, model |-> model_name, time_seconds |-> response.elapsed,
     tokens_input |-> response.prompt_tokens, tokens_output |-> response.completion_tokens]

\* models of run_all (lines 170-174)
GenModels ==
    <<[model_type |-> "local", model_id |-> "gpt2"],
      [model_type |-> "deepseek-chat", model_id |-> "deepseek-chat"],
      [model_type |-> "deepseek-reasoner", model_id |-> "deepseek-reasoner"]>>

\* TryCell mutated: the exception of a backend is not caught
TryCell_uncaught(m, response) ==
    IF response.raised
    THEN [abort |-> TRUE, res |-> [error |-> response.msg]]
    ELSE [abort |-> FALSE,
          res |-> IF m.model_type = "local" THEN generate_local(response, m.model_id)
                  ELSE generate_deepseek(response, m.model_id)]

\* the try/except around one cell (lines 184-192, 200-208): the value stored
TryCell(m, response) ==
    [abort |-> FALSE,
     res |-> IF response.raised THEN [error |-> response.msg]
             ELSE IF m.model_type = "local" THEN generate_local(response, m.model_id)
             ELSE generate_deepseek(response, m.model_id)]

\* results[year] = {} (lines 180, 196)
ResetYear(results, year) ==
    IF \E i \in 1..Len(results) : results[i].year = year
    THEN [i \in 1..Len(results) |->
            IF results[i].year = year THEN [year |-> year, models |-> <<>>] ELSE results[i]]
    ELSE Append(results, [year |-> year, models |-> <<>>])

\* results[year][model_id] = res (lines 189, 192, 205, 208)
SetCell(results, year, model_id, res) ==
    [i \in 1..Len(results) |->
        IF results[i].year # year THEN results[i]
        ELSE [year |-> year,
              models |->
                IF \E j \in 1..Len(results[i].models) : results[i].models[j].model = model_id
                THEN [j \in 1..Len(results[i].models) |->
                        IF results[i].models[j].model = model_id
                        THEN [model |-> model_id, result |-> res]
                        ELSE results[i].models[j]]
                ELSE Append(results[i].models, [model |-> model_id, result |-> res])]]

-----------------------------------------------------------------------------
(* Bounds of the model *)

\* longest text handed to the pure text functions
MaxTextLen == 5

\* most Document Records in becas_estructuradas.json
MaxDocs == 2

\* most year keys in resumenes_generados.json
MaxYears == 2

\* most run_evaluation calls on one NLGPerformanceAudit instance
MaxRuns == 2

\* most words and numbers in the summary of the one-cell runs
MaxSummaryTokens == 3
\* most fragments in a text handed to extract_amounts
MaxFragments == 4
\* most PDFs in the input folder
MaxPdfs == 2

\* the sequences over S of length at most n
BoundedSeqs(S, n) == UNION {[1..k -> S] : k \in 0..n}

-----------------------------------------------------------------------------
(* SpecText: the pure text functions applied to every short text *)

TextAlphabet == {"1", ".", ",", " ", "\n", "a", "A", "*"}

NoCall == [fn |-> "none"]

IdleText == text_in = [none |-> TRUE, s |-> <<>>] /\ text_out = NoCall

\* both input files are on disk
FilesPresent == data_exists = TRUE /\ gen_exists = TRUE

\* no evaluator has run; the NLGPerformanceAudit instance is constructed
\* (evaluador_resumenes_v1.py lines 43-50: self.results = [], mkdir)
EvalOutputsInit ==
    /\ std_status = "idle" /\ all_evals = <<>> /\ detail_csv = <<>> /\ comparison_csv = <<>>
    /\ v1_status = "idle" /\ v1_results = <<>> /\ v1_detail_csv = <<>>
    /\ v1_summary_csv = <<>> /\ v1_runs = 0
    /\ v1_output_dir = TRUE /\ v1_charts = {}
    /\ halluc_status = "idle" /\ halluc_scores = <<>>

IdleEval ==
    /\ structured_data = <<>> /\ generated_results = <<>> /\ has_nlp = FALSE
    /\ FilesPresent
    /\ EvalOutputsInit

IdleGen ==
    /\ gen_pc = "idle" /\ gen_i = 1 /\ gen_j = 1 /\ gen_results = <<>>
    /\ backend_calls = <<>> /\ gen_call = NoCall

IdleDump == dump_pc = "idle" /\ dump_i = 1 /\ txt_files = {}

IdleExt ==
    /\ pdf_folder = <<>> /\ folder_exists = TRUE /\ datos_extraidos = <<>>
    /\ ext_pc = "idle" /\ ext_i = 1 /\ ext_runs = 0 /\ becas_csv = <<>>
    /\ IdleDump

InitText ==
    /\ text_in \in {[none |-> TRUE, s |-> <<>>]}
                  \cup {[none |-> FALSE, s |-> t] : t \in BoundedSeqs(TextAlphabet, MaxTextLen)}
    /\ text_out = NoCall
    /\ IdleEval /\ IdleGen /\ IdleExt

CallRepetitionRate ==
    /\ text_out' = [fn |-> "calculate_repetition_rate",
                    rate |-> calculate_repetition_rate(text_in.none, text_in.s)]
    /\ UNCHANGED <<text_in, evalVars, genVars, extVars>>

CallExtractNumbers ==
    /\ ~text_in.none
    /\ text_out' = [fn |-> "extract_numbers", nums |-> extract_numbers(text_in.s)]
    /\ UNCHANGED <<text_in, evalVars, genVars, extVars>>

\* a monetary value written into its line of the premise template
\* (hallucination_evaluator.py lines 31-36) and the numbers extract_numbers
\* finds in the line and in the value
CallPremiseLine ==
    /\ ~text_in.none
    /\ \E label \in EurosLabels :
          text_out' = [fn |-> "premise_line",
                       line_nums |-> extract_numbers(EurosLine(label, JStr(text_in.s))),
                       value_nums |-> extract_numbers(text_in.s)]
    /\ UNCHANGED <<text_in, evalVars, genVars, extVars>>

NextText == CallRepetitionRate \/ CallExtractNumbers \/ CallPremiseLine

SpecText == InitText /\ [][NextText]_vars

-----------------------------------------------------------------------------
(* The evaluators as actions: each is one run of the whole script *)

\* evaluador_resumenes.py run_evaluation (lines 32-126).  An absent or empty
\* input ends the run at line 41; a CSV is written only when it has rows.
StandardRun ==
    /\ IF ~data_exists \/ ~gen_exists \/ structured_data = <<>> \/ generated_results = <<>>
       THEN /\ std_status' = "missing_input"
            /\ UNCHANGED <<all_evals, detail_csv, comparison_csv>>
       ELSE LET evals == AllEvals(structured_data, generated_results)
                comp  == ComparisonResults(evals)
            IN  /\ std_status' = "done"
                /\ all_evals' = evals
                /\ detail_csv' = IF evals # <<>> THEN evals ELSE detail_csv
                /\ comparison_csv' = IF comp # <<>> THEN comp ELSE comparison_csv
    /\ UNCHANGED <<textVars, evalInputs, v1Vars, hallucVars, genVars, extVars>>

\* the charts of evaluador_resumenes_v1.py (lines 226, 235, 253)
Dashboard == <<"dashboard_final_completo.png">>
Heatmap == <<"heatmap_performance.png">>
Radar(model) == <<"radar_", model, ".png">>

\* NLGPerformanceAudit.__init__ (lines 43-50): self.results = [] and
\* self.output_dir.mkdir(exist_ok=True), before any input file is looked at
V1Init ==
    /\ v1_status = "unbuilt"
    /\ v1_status' = "idle"
    /\ v1_results' = <<>>
    /\ v1_output_dir' = TRUE
    /\ UNCHANGED <<v1_detail_csv, v1_summary_csv, v1_runs, v1_charts,
                   textVars, evalInputs, stdVars, hallucVars, genVars, extVars>>

\* NLGPerformanceAudit.run_evaluation and _generate_outputs (lines 111-204) on
\* one instance: _load_data ends the run when an input file is absent (lines
\* 54-56, 122); the rows are appended to self.results, which __init__ alone
\* empties; groupby("Model") on a frame without rows raises KeyError.
V1Run ==
    /\ v1_status # "unbuilt"
    /\ v1_runs < MaxRuns
    /\ v1_runs' = v1_runs + 1
    /\ IF ~data_exists \/ ~gen_exists
       THEN /\ v1_status' = "missing_input"
            /\ UNCHANGED <<v1_results, v1_detail_csv, v1_summary_csv, v1_charts>>
       ELSE LET results == v1_results
                           \o V1NewEntries(structured_data, generated_results, has_nlp)
            IN  /\ v1_results' = results
                /\ IF results = <<>>
                   THEN /\ v1_status' = "crashed"
                        /\ UNCHANGED <<v1_detail_csv, v1_summary_csv, v1_charts>>
                   ELSE /\ v1_status' = "done"
                        /\ v1_detail_csv' = results
                        /\ v1_summary_csv' = V1Summary(results)
                        /\ v1_charts' = v1_charts \cup {Dashboard}
    /\ UNCHANGED <<v1_output_dir, textVars, evalInputs, stdVars, hallucVars, genVars, extVars>>

\* plot_heatmap and plot_radar as __main__ calls them after run_evaluation
\* (lines 259-261), whatever run_evaluation did: groupby("Model") on a frame
\* without rows raises KeyError (line 231)
V1Plots ==
    /\ v1_status \in {"done", "missing_input"}
    /\ IF v1_results = <<>>
       THEN /\ v1_status' = "crashed"
            /\ UNCHANGED v1_charts
       ELSE /\ v1_status' = "plotted"
            /\ v1_charts' = v1_charts \cup {Heatmap}
                               \cup {Radar(v1_results[i].Model) : i \in 1..Len(v1_results)}
    /\ UNCHANGED <<v1_results, v1_detail_csv, v1_summary_csv, v1_runs, v1_output_dir,
                   textVars, evalInputs, stdVars, hallucVars, genVars, extVars>>

\* hallucination_evaluator.py, the whole script: open() of an absent file
\* raises FileNotFoundError (lines 16-20), then the main loop (lines 93-129)
HallucRun ==
    /\ IF ~data_exists \/ ~gen_exists
       THEN /\ halluc_status' = "crashed"
            /\ UNCHANGED halluc_scores
       ELSE LET out == HallucMain(structured_data, generated_results)
            IN  /\ halluc_scores' = out.scores
                /\ halluc_status' = IF out.crashed THEN "crashed" ELSE "done"
    /\ UNCHANGED <<textVars, evalInputs, stdVars, v1Vars, genVars, extVars>>

-----------------------------------------------------------------------------
(* Document Records and Generation Records the evaluators are run on *)

ND == JStr(NoDetectado)

\* the monetary fields when only the default of line 91 is set
AmountsDefault ==
    [cuantia_renta_fija |-> ND, cuantia_residencia |-> ND, beca_basica |-> ND,
     cuantia_variable_minima |-> JStr(<<"6", "0", ",", "0", "0">>),
     excelencia_min |-> ND, excelencia_max |-> ND]

\* the nested fields when no rule matched (lines 116, 220, 258, 280, 316, 370, 398, 430)
NestedSparse ==
    [excelencia_tramos |-> ND, umbrales_renta |-> ND, umbrales_patrimonio |-> ND,
     requisitos_academicos |-> ND, suplementos_insulares |-> ND,
     deducciones_renta |-> ND, discapacidad |-> ND,
     plazos_solicitud |-> JDict(<<KV(<<"status">>, ND)>>)]

\* the nested fields when every rule the premise reads matched
NestedRich ==
    [excelencia_tramos |->
        JList(<<JDict(<<KV(<<"nota_media">>, JStr(<<"8", ".", "0", "0", "-", "8", ".", "4", "9">>)),
                        KV(<<"cuantia_euros">>, JInt(<<"5", "0">>))>>)>>),
     umbrales_renta |->
        JDict(<<KV(K_tabla,
                   JList(<<JDict(<<KV(<<"miembros">>, JStr(<<"1">>)),
                                   KV(<<"umbral_", "1">>, JStr(<<"8", ".", "8", "4", "3">>)),
                                   KV(<<"umbral_", "2">>, JStr(<<"1", "3", ".", "8", "9", "8">>)),
                                   KV(<<"umbral_", "3">>, JStr(<<"N/A">>))>>)>>))>>),
     umbrales_patrimonio |->
        JDict(<<KV(<<"fincas_urbanas_limite">>, JStr(<<"4", "2", ".", "9", "0", "0">>))>>),
     requisitos_academicos |->
        JDict(<<KV(<<"creditos_tiempo_completo">>, JInt(<<"6", "0">>))>>),
     suplementos_insulares |->
        JDict(<<KV(<<"suplemento_insular_basico">>, JStr(<<"4", "4", "2">>))>>),
     deducciones_renta |->
        JDict(<<KV(<<"deduccion_familia_numerosa_especial">>, JStr(<<"8", "0", "0">>))>>),
     discapacidad |-> ND,
     plazos_solicitud |->
        JDict(<<KV(<<"fechas_encontradas">>, JList(<<>>)),
                KV(<<"texto_extracto">>, JStr(<<"hasta", " ", "mayo">>))>>)]

\* the record ejecutar builds (lines 451-464)
DocRecord(curso, amounts, nested) ==
    [fichero |-> JStr(<<"becas", ".", "pdf">>),
     curso_academico |-> JStr(curso),
     programas_educativos |-> ND]
    @@ amounts @@ nested

T300  == <<"3", "0", "0">>
T1600 == <<"1", ".", "6", "0", "0">>

AmountsBasic ==
    [AmountsDefault EXCEPT !.beca_basica = JStr(T300), !.cuantia_residencia = JStr(T1600)]

EvalDocs ==
    {DocRecord(Y2021, AmountsDefault, NestedRich),
     DocRecord(Y2021, AmountsBasic, NestedSparse),
     DocRecord(Y2022, AmountsBasic, NestedRich)}

\* a result envelope (generador_resumenes.py lines 92-98, 152-158)
OkCell(model, text, seconds, tokens_out) ==
    [text |-> text, model |-> model, time_seconds |-> seconds,
     tokens_input |-> 40, tokens_output |-> tokens_out]

\* an error envelope (generador_resumenes.py lines 192, 208)
ErrCell(msg) == [error |-> msg]

EvalModels == <<"gpt2", "deepseek-chat">>
EvalYears  == <<Y2021, Y2022, COMBINED>>

\* the successful envelope of a (year, model) cell of the model's inputs
EvalOkCell(year, model) ==
    CASE year = Y2021 /\ model = "gpt2" ->
            OkCell(model, <<"a", " ", "a", " ", "9", "9", "9", "9">>, 231, 12)
      [] year = Y2021 ->
            OkCell(model, T300 \o <<" ", "euros", ",", " ">> \o T1600 \o <<".">>, 120, 7)
      [] year = Y2022 /\ model = "gpt2" ->
            OkCell(model, <<"*", "Beca", "*", "\n", "\n">> \o T300 \o <<" ", "5">>, 250, 9)
      [] year = Y2022 ->
            OkCell(model, <<"1", "6", "0", "0", " ", "2", "0", "2", "2">>, 101, 6)
      [] year = COMBINED /\ model = "gpt2" ->
            OkCell(model, <<>>, 90, 0)
      [] OTHER ->
            OkCell(model, <<"6", "0", ",", "0", "0", " ", "y", " ">> \o T300, 133, 8)

\* the model dicts of one year: each configured model holds a result
\* envelope or an error envelope
YearCells(year) ==
    {[i \in 1..Len(EvalModels) |->
        [model  |-> EvalModels[i],
         result |-> IF failed[i] THEN ErrCell(<<"timeout">>)
                    ELSE EvalOkCell(year, EvalModels[i])]] :
     failed \in [1..Len(EvalModels) -> BOOLEAN]}

\* the generated-summaries mappings: at most MaxYears of the year keys, in
\* the order of EvalYears
RECURSIVE GenChoices(_)
GenChoices(years) ==
    IF years = <<>> THEN {<<>>}
    ELSE LET rest == GenChoices(Tail(years))
         IN  rest \cup {<<[year |-> Head(years), models |-> ms]>> \o g :
                          ms \in YearCells(Head(years)), g \in rest}

InitEval ==
    /\ IdleText
    /\ structured_data \in BoundedSeqs(EvalDocs, MaxDocs)
    /\ generated_results \in {g \in GenChoices(EvalYears) : Len(g) <= MaxYears}
    /\ has_nlp \in BOOLEAN
    /\ FilesPresent
    /\ EvalOutputsInit /\ IdleGen /\ IdleExt

NextEval == StandardRun \/ V1Run \/ HallucRun

Spec == InitEval /\ [][NextEval]_vars

-----------------------------------------------------------------------------
(* SpecCell: the standard evaluator on one Document Record and one cell *)

\* what a summary is made of: its words and numbers, a blank between two
SummaryTokens ==
    {<<"3", "0", "0", ".">>, <<"1", ".", "6", "0", "0">>, <<"1", "6", "0", "0">>,
     <<"9", "9", "9", "9">>, <<"5">>, <<"a">>, <<"6", "0", ",", "0", "0">>, Y2021}

SummaryTexts ==
    {Join(<<" ">>, ts) : ts \in BoundedSeqs(SummaryTokens, MaxSummaryTokens)}

\* the monetary fields of a record whose minimum variable amount matched v
AmountsVariable(v, residencia) ==
    [AmountsDefault EXCEPT !.cuantia_variable_minima = JStr(v),
                           !.cuantia_residencia = residencia]

CellDocs ==
    {DocRecord(curso, amounts, NestedSparse) :
        curso \in {DESCONOCIDO, Y2021},
        amounts \in {AmountsDefault,
                     AmountsVariable(T300, JStr(T1600)),
                     AmountsVariable(<<"5">>, ND)}}

InitCell ==
    /\ IdleText
    /\ structured_data \in {<<d>> : d \in CellDocs}
    /\ generated_results \in
          {<<[year |-> y,
              models |-> <<[model |-> "gpt2", result |-> OkCell("gpt2", t, 231, 12)]>>]>> :
           y \in {Y2021, DESCONOCIDO, COMBINED}, t \in SummaryTexts}
    /\ has_nlp = FALSE
    /\ FilesPresent
    /\ EvalOutputsInit /\ IdleGen /\ IdleExt

NextCell == StandardRun

SpecCell == InitCell /\ [][NextCell]_vars

-----------------------------------------------------------------------------
(* Specification SpecGen: run_all of generador_resumenes.py, one cell at a *)
(* time, each backend call answering or raising.                           *)

GenDocs ==
    {DocRecord(Y2021, AmountsBasic, NestedRich),
     DocRecord(Y2022, AmountsDefault, NestedSparse),
     DocRecord(DESCONOCIDO, AmountsDefault, NestedSparse)}

\* what a backend can do with one request: raise, or answer
BackendResponses(model_id, kind) ==
    {[raised |-> TRUE, msg |-> <<"Connection", " ", "error", ".">>],
     [raised |-> FALSE,
      content |-> IF model_id = "gpt2" THEN <<"a", " ", "a">> ELSE T300 \o <<" ", "euros">>,
      reasoning |-> IF model_id = "deepseek-reasoner" /\ kind = "single"
                    THEN <<"think">> ELSE <<>>,
      prompt_tokens |-> 640, completion_tokens |-> 12, elapsed |-> 231]}

\* the request a cell sends to its backend
CellRequest(m, prompt) ==
    IF m.model_type = "local"
    THEN [model |-> m.model_id, prompt |-> prompt]
    ELSE DeepseekRequest(prompt, m.model_id)

InitGen ==
    /\ IdleText
    /\ structured_data \in BoundedSeqs(GenDocs, MaxDocs)
    /\ generated_results = <<>>
    /\ has_nlp = FALSE
    /\ data_exists = TRUE /\ gen_exists = FALSE
    /\ EvalOutputsInit /\ IdleGen /\ IdleExt

\* run_all, lines 166-167 and the entry of the loops
RunAllStart ==
    /\ gen_pc = "idle"
    /\ gen_results' = <<>>
    /\ gen_pc' = IF ~data_exists THEN "crashed"
                 ELSE IF structured_data = <<>> THEN "combined" ELSE "years"
    /\ gen_i' = 1 /\ gen_j' = 1
    /\ UNCHANGED <<backend_calls, gen_call, textVars, evalVars, extVars>>

\* one pass of the inner loop of Phase 1 (lines 177-192)
GenerateYearCell ==
    /\ gen_pc = "years"
    /\ LET year_data == structured_data[gen_i]
           year      == year_data.curso_academico.s
           prompt    == build_prompt_single(year_data)
           m         == GenModels[gen_j]
           results0  == IF gen_j = 1 THEN ResetYear(gen_results, year) ELSE gen_results
       IN  \E response \in BackendResponses(m.model_id, prompt.kind) :
              LET out == TryCell(m, response)
              IN  /\ backend_calls' = Append(backend_calls,
                                             [request |-> CellRequest(m, prompt),
                                              raised  |-> response.raised])
                  /\ IF out.abort
                     THEN /\ gen_pc' = "crashed"
                          /\ gen_results' = results0
                          /\ UNCHANGED <<gen_i, gen_j>>
                     ELSE /\ gen_results' = SetCell(results0, year, m.model_id, out.res)
                          /\ IF gen_j < Len(GenModels)
                             THEN /\ gen_j' = gen_j + 1
                                  /\ UNCHANGED <<gen_i, gen_pc>>
                             ELSE /\ gen_j' = 1
                                  /\ gen_i' = gen_i + 1
                                  /\ gen_pc' = IF gen_i < Len(structured_data)
                                               THEN "years" ELSE "combined"
    /\ UNCHANGED <<gen_call, textVars, evalVars, extVars>>

\* one pass of the loop of Phase 2 (lines 195-208)
GenerateCombinedCell ==
    /\ gen_pc = "combined"
    /\ LET prompt   == build_prompt_combined(structured_data)
           m        == GenModels[gen_j]
           results0 == IF gen_j = 1 THEN ResetYear(gen_results, COMBINED) ELSE gen_results
       IN  \E response \in BackendResponses(m.model_id, prompt.kind) :
              LET out == TryCell(m, response)
              IN  /\ backend_calls' = Append(backend_calls,
                                             [request |-> CellRequest(m, prompt),
                                              raised  |-> response.raised])
                  /\ IF out.abort
                     THEN /\ gen_pc' = "crashed"
                          /\ gen_results' = results0
                          /\ UNCHANGED gen_j
                     ELSE /\ gen_results' = SetCell(results0, COMBINED, m.model_id, out.res)
                          /\ IF gen_j < Len(GenModels)
                             THEN gen_j' = gen_j + 1 /\ UNCHANGED gen_pc
                             ELSE gen_j' = 1 /\ gen_pc' = "save"
    /\ UNCHANGED <<gen_i, gen_call, textVars, evalVars, extVars>>

\* the json.dump of lines 211-212
SaveResults ==
    /\ gen_pc = "save"
    /\ generated_results' = gen_results
    /\ gen_exists' = TRUE
    /\ gen_pc' = "done"
    /\ UNCHANGED <<gen_i, gen_j, gen_results, backend_calls, gen_call, textVars, structured_data,
                   has_nlp, data_exists, stdVars, v1Vars, hallucVars, extVars>>

NextGen == RunAllStart \/ GenerateYearCell \/ GenerateCombinedCell \/ SaveResults

SpecGen == InitGen /\ [][NextGen]_vars

-----------------------------------------------------------------------------
(* Specification SpecAmounts: extract_amounts on texts put together from   *)
(* the wordings its patterns look for.                                     *)

AmountFragments ==
    {<<"Beca básica">>,
     <<"Cuantía fija ligada a la", " ", "renta">>,
     <<"cuantía variable", " ", "importe", " ", "mínimo">>,
     <<"excelencia académica", ":", " ", "entre", " ">>,
     <<":", " ">>, <<".">>, <<" ">>, <<" ", "y", " ">>,
     <<"3", "0", "0">>, <<"1", ".", "2", "5", "0">>, <<"euros">>}

\* the concatenations of at most n fragments
RECURSIVE FragmentTexts(_, _)
FragmentTexts(F, n) ==
    IF n = 0 THEN {<<>>}
    ELSE LET shorter == FragmentTexts(F, n - 1)
         IN  shorter \cup {f \o t : f \in F, t \in shorter}

InitAmounts ==
    /\ text_in \in {[none |-> FALSE, s |-> t] : t \in FragmentTexts(AmountFragments, MaxFragments)}
    /\ text_out = NoCall
    /\ IdleEval /\ IdleGen /\ IdleExt

CallExtractAmounts ==
    /\ text_out' = [fn |-> "extract_amounts", amounts |-> extract_amounts(text_in.s)]
    /\ UNCHANGED <<text_in, evalVars, genVars, extVars>>

NextAmounts == CallExtractAmounts

SpecAmounts == InitAmounts /\ [][NextAmounts]_vars

-----------------------------------------------------------------------------
(* Specification SpecExtract: ejecutar of extractor_becas.py over a folder *)
(* of PDFs, then the hallucination evaluator on the file it wrote.         *)

\* a text none of whose words any pattern of the extractor looks for
DocNeutral == <<"hola", " ", "mundo", "\n", "fin">>

\* a text with a year header and the monetary amounts
DocAmounts ==
    <<"Beca básica", ":", " ", "3", "0", "0", " ", "euros", "\n",
      "Cuantía fija ligada a la", " ", "residencia", " ", "1", ".", "6", "0", "0", " ", "euros", "\n",
      "cuantía variable", " ", "mínimo", " ", "será", " ", "de", " ", "6", "0", " ", "euros", "\n",
      "1", "2", "5", " ", "euros", "\n">>

\* a text in which every rule finds its section
DocRich ==
    <<"CURSO ACADÉMICO", " ">> \o Y2021 \o <<"\n",
      "Artículo", " ", "3", ".", " ", "Enseñanzas comprendidas", ".", "\n",
      "a) Enseñanzas de bachillerato", "\n", "1", "2", "\n", "CAPÍTULO", " ", "II", "\n",
      "Cuantía fija ligada a la", " ", "renta", ":", " ", "1", ".", "7", "0", "0", " ", "euros", "\n",
      "Beca básica", ":", " ", "3", "0", "0", " ", "euros", "\n",
      "Cuantía variable", " ", "importe", " ", "mínimo", " ", "6", "0", " ", "euros", "\n",
      "excelencia académica", ":", " ", "entre", " ", "5", "0", " ", "y", " ", "1", "2", "5",
      " ", "euros", "\n",
      "Entre", " ", "8", ",", "0", "0", " ", "y", " ", "8", ",", "4", "9", " ", "puntos", " ",
      "5", "0", " ", "euros", "\n",
      "matriculado", "s", " ", "de", " ", "6", "0", " ", "créditos", " ", "tiempo", " ",
      "completo", "\n",
      "Artículo", " ", "1", "2", ".", " ", "Cuantías adicionales", " ", "dispondrán de", " ",
      "4", "4", "2", " ", "euros", "\n",
      "Artículo", " ", "1", "3", ".", " ", "Becas especiales", " ", "incrementarán en", " ",
      "un", " ", "5", "0", " ", "por", " ", "ciento", "\n",
      "Artículo", " ", "1", "4", ".", "\n",
      "Artículo", " ", "1", "9", ".", " ", "Umbrales de renta", ".", "\n",
      "1", " ", "8", ".", "8", "4", "3", " ", "1", "3", ".", "8", "9", "8", "\n",
      "2", "\n", "1", "3", ".", "0", "0", "0", "\n", "2", "0", ".", "0", "0", "0", "\n",
      "Artículo", " ", "2", "0", ".", " ", "Umbrales indicativos de patrimonio familiar", ".",
      " ", "fincas urbanas", " ", "superar", " ", "4", "2", ".", "9", "0", "0", " ", "euros", "\n",
      "Artículo", " ", "2", "1", ".", " ", "deducciones siguientes", ":", " ",
      "5", "2", "5", " ", "euros", " ", "familias numerosas de", " ", "categoría general", " ",
      "y", " ", "8", "0", "0", " ", "euros", "\n",
      "Artículo", " ", "4", "8", ".", " ", "Plazo de presentación de solicitudes", ".", " ",
      "estudiantes universitarios", " ", "hasta el", " ", "1", "4", " ", "de", " ", "mayo", " ",
      "de", " ", "2", "0", "2", "2", "\n", "CAPÍTULO", " ", "V">>

\* the PDFs a folder can hold; fitz.open raises on an unreadable one
PdfFiles ==
    {[name |-> <<"becas", "_">> \o Y2021 \o <<".", "pdf">>, text |-> DocRich, readable |-> TRUE],
     [name |-> <<"convocatoria", ".", "pdf">>, text |-> DocNeutral, readable |-> TRUE],
     [name |-> <<"boe", "_", "2", "0", "2", "2", "-", "2", "3", ".", "pdf">>,
      text |-> DocAmounts, readable |-> TRUE],
     [name |-> <<"roto", ".", "pdf">>, text |-> <<>>, readable |-> FALSE]}

\* resumenes_generados.json as the hallucination evaluator finds it: the
\* summaries of the first year
ExtractSummaries ==
    <<[year   |-> Y2021,
       models |-> [i \in 1..Len(EvalModels) |->
                     [model |-> EvalModels[i], result |-> EvalOkCell(Y2021, EvalModels[i])]]]>>

InitExtract ==
    /\ IdleText
    /\ structured_data = <<>> /\ generated_results = ExtractSummaries /\ has_nlp = FALSE
    /\ data_exists = FALSE /\ gen_exists = TRUE
    /\ EvalOutputsInit /\ IdleGen
    /\ pdf_folder \in {f \in BoundedSeqs(PdfFiles, MaxPdfs) :
                         \A i, j \in 1..Len(f) : f[i].name = f[j].name => i = j}
    /\ folder_exists \in BOOLEAN
    /\ datos_extraidos = <<>>
    /\ ext_pc = "idle" /\ ext_i = 1 /\ ext_runs = 0 /\ becas_csv = <<>>
    /\ IdleDump

\* ejecutar up to the for loop (lines 436-441)
EjecutarStart ==
    /\ ext_pc = "idle"
    /\ ext_runs < MaxRuns
    /\ ext_runs' = ext_runs + 1
    /\ ext_i' = 1
    /\ ext_pc' = IF folder_exists THEN "loop" ELSE "idle"
    /\ UNCHANGED <<pdf_folder, folder_exists, datos_extraidos, becas_csv, dumpVars,
                   textVars, evalVars, genVars>>

\* one pass of the for loop (lines 443-469)
ProcessPdf ==
    /\ ext_pc = "loop"
    /\ ext_i <= Len(pdf_folder)
    /\ LET ruta_pdf == pdf_folder[ext_i]
       IN  datos_extraidos' =
              IF ruta_pdf.readable
              THEN Append(datos_extraidos, BuildInfo(ruta_pdf.name, ruta_pdf.text))
              ELSE datos_extraidos
    /\ ext_i' = ext_i + 1
    /\ UNCHANGED <<pdf_folder, folder_exists, ext_pc, ext_runs, becas_csv, dumpVars,
                   textVars, evalVars, genVars>>

\* guardar_resultados (lines 473-505), called at the end of ejecutar
GuardarResultados ==
    /\ ext_pc = "loop"
    /\ ext_i > Len(pdf_folder)
    /\ structured_data' = datos_extraidos
    /\ data_exists' = TRUE
    /\ becas_csv' = IF datos_extraidos # <<>>
                    THEN [i \in 1..Len(datos_extraidos) |-> CsvRow(datos_extraidos[i])]
                    ELSE becas_csv
    /\ ext_pc' = "idle"
    /\ UNCHANGED <<pdf_folder, folder_exists, datos_extraidos, ext_i, ext_runs, dumpVars,
                   textVars, generated_results, has_nlp, gen_exists, stdVars, v1Vars,
                   hallucVars, genVars>>

\* hallucination_evaluator.py run on the becas_estructuradas.json that
\* ejecutar has written
HallucAfterExtract ==
    /\ ext_pc = "idle" /\ ext_runs > 0 /\ folder_exists
    /\ HallucRun

NextExtract == EjecutarStart \/ ProcessPdf \/ GuardarResultados \/ HallucAfterExtract

SpecExtract == InitExtract /\ [][NextExtract]_vars

-----------------------------------------------------------------------------
(* SpecFiles: the evaluator scripts started in a directory where each of the
   two input files may be absent *)

InitFiles ==
    /\ IdleText /\ IdleGen /\ IdleExt
    /\ data_exists \in BOOLEAN
    /\ gen_exists \in BOOLEAN
    /\ structured_data \in IF data_exists THEN {<<d>> : d \in EvalDocs} ELSE {<<>>}
    /\ generated_results \in IF gen_exists
                              THEN {g \in GenChoices(EvalYears) : Len(g) = 1}
                              ELSE {<<>>}
    /\ has_nlp = FALSE
    /\ std_status = "idle" /\ all_evals = <<>> /\ detail_csv = <<>> /\ comparison_csv = <<>>
    /\ v1_status = "unbuilt" /\ v1_results = <<>> /\ v1_detail_csv = <<>>
    /\ v1_summary_csv = <<>> /\ v1_runs = 0
    /\ v1_output_dir = FALSE /\ v1_charts = {}
    /\ halluc_status = "idle" /\ halluc_scores = <<>>

NextFiles == StandardRun \/ V1Init \/ V1Run \/ V1Plots \/ HallucRun

SpecFiles == InitFiles /\ [][NextFiles]_vars

-----------------------------------------------------------------------------
(* SpecBackend: generate_deepseek and generate_local called directly, with
   any model identifier, on whatever the backend does *)

\* model identifiers a caller can pass
DeepseekModelIds == {"deepseek-chat", "deepseek-reasoner", "deepseek-coder",
                     "DeepSeek-Reasoner", "gpt2"}
LocalModelIds == {"gpt2", "distilgpt2"}

DirectPrompts ==
    {build_prompt_single(d) : d \in GenDocs} \cup {build_prompt_combined(<<d>>) : d \in GenDocs}

\* what the backend does with a request: raise, or answer; any model may or
\* may not expose a reasoning trace (getattr(..., None) of line 101)
DirectResponses ==
    {[raised |-> TRUE, msg |-> <<"Connection", " ", "error", ".">>]}
    \cup [raised : {FALSE}, content : {<<>>, T300 \o <<" ", "euros">>},
          reasoning : {<<>>, <<"think">>},
          prompt_tokens : {640}, completion_tokens : {0, 12}, elapsed : {0, 231}]

InitBackend == IdleText /\ IdleEval /\ IdleGen /\ IdleExt

\* generate_deepseek(prompt, model) (lines 59-105): the request is built and
\* sent; an exception of the backend leaves the function
CallGenerateDeepseek ==
    /\ \E model \in DeepseekModelIds, prompt \in DirectPrompts, response \in DirectResponses :
          gen_call' = [fn |-> "generate_deepseek",
                       request |-> DeepseekRequest(prompt, model),
                       response |-> response,
                       result |-> IF response.raised THEN [raised |-> response.msg]
                                  ELSE generate_deepseek(response, model)]
    /\ UNCHANGED <<gen_pc, gen_i, gen_j, gen_results, backend_calls,
                   textVars, evalVars, extVars>>

\* generate_local(prompt, model_name) (lines 111-158)
CallGenerateLocal ==
    /\ \E model \in LocalModelIds, prompt \in DirectPrompts, response \in DirectResponses :
          gen_call' = [fn |-> "generate_local",
                       request |-> [model |-> model, prompt |-> prompt],
                       response |-> response,
                       result |-> IF response.raised THEN [raised |-> response.msg]
                                  ELSE generate_local(response, model)]
    /\ UNCHANGED <<gen_pc, gen_i, gen_j, gen_results, backend_calls,
                   textVars, evalVars, extVars>>

NextBackend == CallGenerateDeepseek \/ CallGenerateLocal

SpecBackend == InitBackend /\ [][NextBackend]_vars

-----------------------------------------------------------------------------
(* SpecTable: extract_thresholds of extractor_becas.py on a threshold section
   whose table is laid out one row per line or one cell per line *)

\* rows of a table text
MaxRows == 2

\* the member counts of the rows, on both sides of the bound of lines 151, 162
TableCounts == {<<"1">>, <<"1", "9">>, <<"2", "0">>, <<"2", "1">>}

\* a row as the PDF text lays it out: in one line, or one cell per line;
\* ncells amount cells follow the member count
RowShapes == [layout : {"line", "cells"}, miembros : TableCounts, ncells : 1..3]

\* the amount of cell c of row r, different in every cell
AmountCell(r, c) == <<"8", ".", ToString(r), ToString(c), "0">>

\* the text lines of row r
RowLines(rows, r) ==
    LET cells == [c \in 1..rows[r].ncells |-> AmountCell(r, c)]
    IN  IF rows[r].layout = "line"
        THEN <<Join(<<" ">>, <<rows[r].miembros>> \o cells)>>
        ELSE <<rows[r].miembros>> \o cells

TableLines(rows) == Flatten([r \in 1..Len(rows) |-> RowLines(rows, r)])

\* the section: its heading, then the lines of the table
TableText(rows) ==
    <<"Artículo", " ", "1", "9", ".", " ", "Umbrales de renta", "\n">>
        \o Join(<<"\n">>, TableLines(rows))

InitTable ==
    /\ text_in \in {[none |-> FALSE, s |-> TableText(rows), rows |-> rows] :
                        rows \in BoundedSeqs(RowShapes, MaxRows)}
    /\ text_out = NoCall
    /\ IdleEval /\ IdleGen /\ IdleExt

CallExtractThresholds ==
    /\ text_out' = [fn |-> "extract_thresholds", result |-> extract_thresholds(text_in.s)]
    /\ UNCHANGED <<text_in, evalVars, genVars, extVars>>

NextTable == CallExtractThresholds

SpecTable == InitTable /\ [][NextTable]_vars

-----------------------------------------------------------------------------
(* SpecThresholds: extract_thresholds of extractor_becas.py on texts with or
   without the heading of the income-threshold article, whose section holds
   keyed tiers, table rows, both or neither *)

\* parts of a section
MaxSectionParts == 3

\* what can open the text: the heading the pattern of line 112 looks for,
\* with either article number, the heading of another article, or nothing
SectionHeadings ==
    {<<"Artículo", " ", "1", "9", ".", " ", "Umbrales de renta", ".">>,
     <<"Artículo", " ", "9", ".", " ", "Umbrales de renta", ".">>,
     <<"Artículo", " ", "1", "8", ".", " ", "Umbrales de renta", ".">>,
     <<>>}

\* a line of tier n with the limit of a family size
TierPart(n) ==
    <<"Umbral", " ", ToString(n), ":", " ", "Familias de", " ", "dos", " ", "miembro", "s",
      ":", " ", "1", "3", ".", "8", "9", "8", " ", "euros">>

\* the parts of a section: a keyed tier with its limit, the label of a tier
\* without any limit, a table row in one line, one laid out a cell per line
SectionParts ==
    {[kind |-> "tier",  lines |-> TierPart(1)],
     [kind |-> "tier",  lines |-> TierPart(2)],
     [kind |-> "label", lines |-> <<"Umbral", " ", "1", ":">>],
     [kind |-> "row",   lines |-> <<"1", " ", "8", ".", "8", "4", "3", " ",
                                    "1", "3", ".", "8", "9", "8">>],
     [kind |-> "row",   lines |-> <<"2", "\n", "1", "3", ".", "0", "0", "0", "\n",
                                    "2", "0", ".", "0", "0", "0">>]}

\* the text: what opens it, then the parts, one after the other
SectionText(heading, parts) ==
    heading \o <<"\n">> \o Join(<<"\n">>, [k \in 1..Len(parts) |-> parts[k].lines])

InitThresholds ==
    /\ text_in \in {[none |-> FALSE, s |-> SectionText(h, ps), heading |-> h, parts |-> ps] :
                        h \in SectionHeadings, ps \in BoundedSeqs(SectionParts, MaxSectionParts)}
    /\ text_out = NoCall
    /\ IdleEval /\ IdleGen /\ IdleExt

NextThresholds == CallExtractThresholds

SpecThresholds == InitThresholds /\ [][NextThresholds]_vars

-----------------------------------------------------------------------------
(* SpecYear: extract_academic_year of extractor_becas.py on a document text
   and a filename *)

\* parts a filename is made of
MaxNameParts == 3

NameParts == {<<"2", "0", "2", "2">>, <<"2", "0", "2", "3">>, <<"2", "3">>, <<"-">>, <<"becas">>}

\* the filenames: parts one after the other, then the extension
FileNames == {Flatten(p) \o <<".", "pdf">> : p \in BoundedSeqs(NameParts, MaxNameParts)}

\* the year a document header can carry, <<>> for a document without one
HeaderYears == {<<>>, Y2021}

\* the header phrase as PDFs spell it
HeaderPhrases == {"CURSO ACADÉMICO", "Curso académico"}

\* a document: a title line, the header when it has one, some body
YearText(phrase, year) ==
    <<"BOE", "\n">>
        \o (IF year = <<>> THEN <<phrase, " ", "2", "0", "2", "1", "\n">>
            ELSE <<phrase, " ">> \o year \o <<"\n">>)
        \o DocNeutral

InitYear ==
    /\ text_in \in {[none |-> FALSE, s |-> YearText(p, y), header |-> y, filename |-> f] :
                        p \in HeaderPhrases, y \in HeaderYears, f \in FileNames}
    /\ text_out = NoCall
    /\ IdleEval /\ IdleGen /\ IdleExt

CallExtractAcademicYear ==
    /\ text_out' = [fn |-> "extract_academic_year",
                    year |-> extract_academic_year(text_in.s, text_in.filename)]
    /\ UNCHANGED <<text_in, evalVars, genVars, extVars>>

NextYear == CallExtractAcademicYear

SpecYear == InitYear /\ [][NextYear]_vars

-----------------------------------------------------------------------------
(* SpecDump: the batch loop of extract_all_text.py over the folder "data" *)

\* the PDFs a folder can hold: those of PdfFiles and one more that fitz
\* cannot open
DumpFiles ==
    PdfFiles \cup {[name |-> <<"averiado", ".", "pdf">>, text |-> <<>>, readable |-> FALSE]}

\* the place of a file name in the order of sorted() (line 5)
PdfRank(name) ==
    CASE name[1] = "averiado" -> 1
      [] name[1] = "becas" -> 2
      [] name[1] = "boe" -> 3
      [] name[1] = "convocatoria" -> 4
      [] OTHER -> 5

\* sorted(data_dir.glob("*.pdf")) (line 5): nothing when the folder is absent
SortedPdfs(folder, exists) ==
    IF ~exists THEN <<>>
    ELSE LET S == {folder[i] : i \in 1..Len(folder)}
         IN  CHOOSE g \in [1..Len(folder) -> S] :
                \A i, j \in 1..Len(folder) : i < j => PdfRank(g[i].name) < PdfRank(g[j].name)

\* pdf_path.stem + ".txt" (line 13)
TxtName(name) == SubSeq(name, 1, Len(name) - 2) \o <<".", "txt">>

InitDump ==
    /\ IdleText /\ IdleEval /\ IdleGen
    /\ pdf_folder \in {f \in BoundedSeqs(DumpFiles, MaxPdfs) :
                         \A i, j \in 1..Len(f) : f[i].name = f[j].name => i = j}
    /\ folder_exists \in BOOLEAN
    /\ datos_extraidos = <<>>
    /\ ext_pc = "idle" /\ ext_i = 1 /\ ext_runs = 0 /\ becas_csv = <<>>
    /\ IdleDump

\* the script up to the for loop (lines 4-5)
DumpStart ==
    /\ dump_pc = "idle"
    /\ dump_pc' = "loop"
    /\ dump_i' = 1
    /\ UNCHANGED <<txt_files, pdf_folder, folder_exists, datos_extraidos, ext_pc, ext_i,
                   ext_runs, becas_csv, textVars, evalVars, genVars>>

\* one pass of the for loop (lines 7-17): fitz.open raises on a file it
\* cannot open and nothing catches it
DumpPdf ==
    /\ dump_pc = "loop"
    /\ dump_i <= Len(SortedPdfs(pdf_folder, folder_exists))
    /\ LET pdf_path == SortedPdfs(pdf_folder, folder_exists)[dump_i]
       IN  IF pdf_path.readable
           THEN /\ txt_files' = {t \in txt_files : t.name # TxtName(pdf_path.name)}
                                   \cup {[name |-> TxtName(pdf_path.name), text |-> pdf_path.text]}
                /\ dump_i' = dump_i + 1
                /\ UNCHANGED dump_pc
           ELSE /\ dump_pc' = "crashed"
                /\ UNCHANGED <<dump_i, txt_files>>
    /\ UNCHANGED <<pdf_folder, folder_exists, datos_extraidos, ext_pc, ext_i,
                   ext_runs, becas_csv, textVars, evalVars, genVars>>

\* the loop is over: the script ends
DumpEnd ==
    /\ dump_pc = "loop"
    /\ dump_i > Len(SortedPdfs(pdf_folder, folder_exists))
    /\ dump_pc' = "done"
    /\ UNCHANGED <<dump_i, txt_files, pdf_folder, folder_exists, datos_extraidos, ext_pc, ext_i,
                   ext_runs, becas_csv, textVars, evalVars, genVars>>

NextDump == DumpStart \/ DumpPdf \/ DumpEnd

SpecDump == InitDump /\ [][NextDump]_vars

-----------------------------------------------------------------------------
(* SpecNumbers: extract_numbers of evaluador_resumenes.py and _extract_numbers
   of evaluador_resumenes_v1.py on texts of numbers in their written forms *)

\* tokens of a text
MaxNumberTokens == 2

T1600plain == <<"1", "6", "0", "0">>
T1600comma == <<"1", ",", "6", "0", "0">>

\* one amount written plain, with a period, with a comma
Writings1600 == {T1600plain, T1600, T1600comma}

\* what follows a number at the end of a clause
SentencePunctuation == {<<>>, <<".">>, <<",">>}

\* the tokens of a text: the amount in each form, alone or followed by
\* punctuation, another number, a word, and tokens of separators alone
NumberTokens ==
    {w \o p : w \in Writings1600, p \in SentencePunctuation}
        \cup {T300, <<"euros">>, <<".">>, <<",">>, <<".", ".", ",">>}

InitNumbers ==
    /\ text_in \in {[none |-> FALSE, s |-> Join(<<" ">>, ts), tokens |-> ts] :
                        ts \in BoundedSeqs(NumberTokens, MaxNumberTokens)}
    /\ text_out = NoCall
    /\ IdleEval /\ IdleGen /\ IdleExt

\* _extract_numbers(obj) for a str (evaluador_resumenes_v1.py lines 80-94)
CallV1ExtractNumbers ==
    /\ text_out' = [fn |-> "_extract_numbers", nums |-> V1ExtractNumbers(JStr(text_in.s))]
    /\ UNCHANGED <<text_in, evalVars, genVars, extVars>>

NextNumbers == CallExtractNumbers \/ CallV1ExtractNumbers

SpecNumbers == InitNumbers /\ [][NextNumbers]_vars

-----------------------------------------------------------------------------
(* SpecClean: limpiar_resumen of hallucination_evaluator.py on every short
   text, and on its own result *)

\* longest summary handed to the cleaner
MaxCleanLen == 5

CleanAlphabet == {"*", "\n", " ", "a"}

InitClean ==
    /\ text_in \in {[none |-> TRUE, s |-> <<>>]}
                  \cup {[none |-> FALSE, s |-> t] : t \in BoundedSeqs(CleanAlphabet, MaxCleanLen)}
    /\ text_out = NoCall
    /\ IdleEval /\ IdleGen /\ IdleExt

\* limpiar_resumen(texto) (lines 68-74): None is falsy as "" is (line 70)
CallLimpiarResumen ==
    /\ text_out.fn = "none"
    /\ text_out' = [fn |-> "limpiar_resumen", times |-> 1,
                    clean |-> IF text_in.none THEN <<>> ELSE limpiar_resumen(text_in.s)]
    /\ UNCHANGED <<text_in, evalVars, genVars, extVars>>

\* limpiar_resumen applied to what limpiar_resumen returned
CallLimpiarAgain ==
    /\ text_out.fn = "limpiar_resumen" /\ text_out.times = 1
    /\ text_out' = [fn |-> "limpiar_resumen", times |-> 2, first |-> text_out.clean,
                    clean |-> limpiar_resumen(text_out.clean)]
    /\ UNCHANGED <<text_in, evalVars, genVars, extVars>>

NextClean == CallLimpiarResumen \/ CallLimpiarAgain

SpecClean == InitClean /\ [][NextClean]_vars

-----------------------------------------------------------------------------
(* SpecLoop: the while loop of Strategy B of extract_thresholds, one pass at
   a time, over every short list of lines *)

\* lines of the section
MaxLoopLines == 4

\* what a line of the section can hold: a member count below, at or near the
\* bound, an amount, a row in one line, a word
LineKinds ==
    {<<"1">>, <<"1", "9">>, <<"2", "0">>, <<"8", ".", "1", "1", "0">>,
     <<"1", " ", "8", ".", "1", "1", "0", " ", "8", ".", "1", "2", "0">>, <<"euros">>}

\* the lines of a section, and with them what a pass of the loop does at
\* each line: the lines do not change while the loop runs
InitLoop ==
    /\ text_in \in {[none |-> FALSE, s |-> Join(<<"\n">>, ls), lines |-> ls,
                      passes |-> [i \in 1..Len(ls) |-> TableStep(ls, i)]] :
                        ls \in BoundedSeqs(LineKinds, MaxLoopLines)}
    /\ text_out = NoCall
    /\ IdleEval /\ IdleGen /\ IdleExt

\* lines 143-145: table_data = [], i = 0 (the model counts lines from 1)
LoopStart ==
    /\ text_out.fn = "none"
    /\ text_out' = [fn |-> "table_loop", i |-> 1, table_data |-> <<>>, read |-> <<>>]
    /\ UNCHANGED <<text_in, evalVars, genVars, extVars>>

\* one pass of the while of line 146
LoopPass ==
    /\ text_out.fn = "table_loop"
    /\ text_out.i <= Len(text_in.lines)
    /\ LET step == text_in.passes[text_out.i]
       IN  text_out' = [text_out EXCEPT
                          !.i = step.next,
                          !.table_data = @ \o step.rows,
                          !.read = IF step.rows # <<>> THEN Append(@, step.read) ELSE @]
    /\ UNCHANGED <<text_in, evalVars, genVars, extVars>>

\* the condition of line 146 fails: the loop is left
LoopExit ==
    /\ text_out.fn = "table_loop"
    /\ text_out.i > Len(text_in.lines)
    /\ text_out' = [text_out EXCEPT !.fn = "table_done"]
    /\ UNCHANGED <<text_in, evalVars, genVars, extVars>>

NextLoop == LoopStart \/ LoopPass \/ LoopExit

SpecLoop == InitLoop /\ [][NextLoop]_vars

\* the interpreter runs the loop on
SpecLoopFair == SpecLoop /\ WF_vars(NextLoop)

-----------------------------------------------------------------------------
(* SpecRates: the scoring of one cell by both evaluators (evaluador_resumenes.py
   lines 64-86, evaluador_resumenes_v1.py lines 160-163), given the numbers
   found in the summary and in the reference and the words of the summary *)

\* most words of a short summary
MaxShortWords == 3

\* the words of a long summary
LongSummaryWords == 20001

\* the numbers the summary and the reference are made of
NumPool == {<<"5">>, <<"6", "0">>, <<"3", "0", "0">>, <<"1", "6", "0", "0">>}

\* how many words a summary has
WordCounts ==
    (0..MaxShortWords) \cup {LongSummaryWords - 2, LongSummaryWords - 1, LongSummaryWords}

\* how many of n words can be distinct
UniqueCounts(n) ==
    IF n = 0 THEN {0} ELSE {u \in 1..n : u <= MaxShortWords \/ u = n}

\* the inputs of a cell: a summary holding numbers has a word
RateInputs ==
    UNION {{[none |-> FALSE, s |-> <<>>, words |-> n, unique |-> u,
             summary_numbers |-> S, target_facts |-> T] :
               u \in UniqueCounts(n),
               S \in {X \in SUBSET NumPool : X # {} => n > 0},
               T \in SUBSET NumPool} : n \in WordCounts}

InitRates ==
    /\ text_in \in RateInputs
    /\ text_out = NoCall
    /\ IdleEval /\ IdleGen /\ IdleExt

\* evaluador_resumenes.py lines 64-86 on one cell
ScoreStandard ==
    /\ LET rate == RepetitionRate(text_in.words, text_in.unique)
           hallucinated_nums == HallucinatedNums(text_in.summary_numbers, text_in.target_facts)
       IN  text_out' =
              [fn |-> "standard",
               recalled_nums |-> RecalledNums(text_in.summary_numbers, text_in.target_facts),
               hallucinated_nums |-> hallucinated_nums,
               Fact_Recall_Pct |-> FactRecallPct(text_in.summary_numbers, text_in.target_facts),
               Hallucinations_Count |-> Cardinality(hallucinated_nums),
               Repetition_Pct |-> RoundHalfEven(rate.num * 10000, rate.den)]
    /\ UNCHANGED <<text_in, evalVars, genVars, extVars>>

\* evaluador_resumenes_v1.py lines 160-163 on one cell: _extract_numbers
\* keeps no number of one digit (line 92)
ScoreV1 ==
    /\ \A n \in text_in.summary_numbers \cup text_in.target_facts : Len(n) >= 2
    /\ text_out' =
          [fn |-> "v1",
           recalled_nums |-> V1Hits(text_in.summary_numbers, text_in.target_facts),
           hallucinated_nums |-> V1Hallucinated(text_in.summary_numbers, text_in.target_facts),
           Recall_Pct |-> V1RecallPct(text_in.summary_numbers, text_in.target_facts),
           Halluc_Rate_Pct |-> V1HallucRatePct(text_in.summary_numbers, text_in.target_facts)]
    /\ UNCHANGED <<text_in, evalVars, genVars, extVars>>

NextRates == ScoreStandard \/ ScoreV1

SpecRates == InitRates /\ [][NextRates]_vars

-----------------------------------------------------------------------------
(* Claims *)

\* the cells of the generated-summaries mapping
GenCells ==
    UNION {{[year   |-> generated_results[i].year,
             model  |-> generated_results[i].models[j].model,
             result |-> generated_results[i].models[j].result] :
            j \in 1..Len(generated_results[i].models)} :
           i \in 1..Len(generated_results)}

\* the rows of a table for one (year, model) pair
RowsOf(rows, year, model) ==
    {i \in 1..Len(rows) : rows[i].Year = year /\ rows[i].Model = model}

\* the reference number set of a year key, from the Document Records
RefNumbers(year) ==
    IF year = COMBINED
    THEN UNION {UNION {extract_numbers(PyStr(structured_data[i][k])) :
                        k \in DOMAIN structured_data[i]} :
                i \in 1..Len(structured_data)}
    ELSE IF \E i \in 1..Len(structured_data) : structured_data[i].curso_academico.s = year
    THEN LET last == CHOOSE i \in 1..Len(structured_data) :
                        /\ structured_data[i].curso_academico.s = year
                        /\ \A j \in 1..Len(structured_data) :
                              structured_data[j].curso_academico.s = year => j <= i
         IN  UNION {extract_numbers(PyStr(structured_data[last][k])) :
                     k \in DOMAIN structured_data[last]}
    ELSE {}

N300  == <<"3", "0", "0">>
N1600 == <<"1", "6", "0", "0">>
N9999 == <<"9", "9", "9", "9">>

\* C1 as stated: for every non-error cell the recall is 0 when the reference
\* number set is empty, and 100 whenever the numbers of the summary include
\* every reference number of at least 3 digits.
C1_Original ==
    std_status = "done" =>
        \A c \in GenCells : "error" \notin DOMAIN c.result =>
            \A i \in RowsOf(all_evals, c.year, c.model) :
                LET ref == RefNumbers(c.year)
                    sum == extract_numbers(c.result.text)
                IN  /\ ref = {} => all_evals[i].Fact_Recall_Pct = 0
                    /\ {n \in ref : Len(n) >= 3} \subseteq sum
                          => all_evals[i].Fact_Recall_Pct = 10000

\* C1 amended: for every non-error cell the recall is 0 when the reference
\* set holds no number of at least 3 digits (so also when it is empty), and
\* 100 when it holds such numbers and the summary's numbers include them all.
C1_RecallEnds ==
    std_status = "done" =>
        \A c \in GenCells : "error" \notin DOMAIN c.result =>
            \A i \in RowsOf(all_evals, c.year, c.model) :
                LET ref3 == {n \in RefNumbers(c.year) : Len(n) >= 3}
                    sum  == extract_numbers(c.result.text)
                IN  /\ ref3 = {} => all_evals[i].Fact_Recall_Pct = 0
                    /\ (ref3 # {} /\ ref3 \subseteq sum)
                          => all_evals[i].Fact_Recall_Pct = 10000

\* C1 witness: a scored cell whose reference set has a one-digit number and
\* two four-digit ones, all of the latter in the summary, with recall 100.
C1_Witness ==
    /\ std_status = "done"
    /\ \E c \in GenCells :
          /\ RefNumbers(c.year) = {<<"5">>, <<"2", "0", "2", "1">>, <<"2", "0", "2", "2">>}
          /\ {<<"2", "0", "2", "1">>, <<"2", "0", "2", "2">>}
                \subseteq extract_numbers(c.result.text)
          /\ \E i \in RowsOf(all_evals, c.year, c.model) :
                all_evals[i].Fact_Recall_Pct = 10000

\* C2: a Generation Record with the key "error" yields no Evaluation Record
\* and no classifier score for its (year, model) pair in any of the three
\* evaluators, and a model whose every record is an error has no row of
\* averages.
C2_ErrorCellsSkipped ==
    /\ \A c \in GenCells : "error" \in DOMAIN c.result =>
          /\ RowsOf(all_evals, c.year, c.model) = {}
          /\ RowsOf(detail_csv, c.year, c.model) = {}
          /\ RowsOf(v1_results, c.year, c.model) = {}
          /\ RowsOf(v1_detail_csv, c.year, c.model) = {}
          /\ \A i \in 1..Len(halluc_scores) :
                ~(halluc_scores[i].year = c.year /\ halluc_scores[i].model = c.model)
    /\ \A m \in {c.model : c \in GenCells} :
          (\A c \in GenCells : c.model = m => "error" \in DOMAIN c.result) =>
              /\ \A i \in 1..Len(comparison_csv) : comparison_csv[i]["Model"] # m
              /\ \A i \in 1..Len(v1_summary_csv) : v1_summary_csv[i]["Model"] # m

\* C2 witness: all three evaluators have run on a mapping with an error
\* cell, and each has scored another cell.
C2_Witness ==
    /\ std_status = "done" /\ v1_status = "done" /\ halluc_status = "done"
    /\ \E c \in GenCells : "error" \in DOMAIN c.result
    /\ all_evals # <<>> /\ v1_results # <<>> /\ halluc_scores # <<>>

\* C3 as stated: in the per-model comparison table every numeric column of
\* the detail rows is present and equals the arithmetic mean of that column
\* over exactly the detail rows of that model.
C3_Original ==
    /\ \A i \in 1..Len(comparison_csv) :
          LET m    == comparison_csv[i]["Model"]
              rows == SelectSeq(detail_csv, LAMBDA e : e.Model = m)
          IN  \A k \in DetailNumericKeys :
                 /\ k \in DOMAIN comparison_csv[i]
                 /\ comparison_csv[i][k] * Len(rows) = SumOf(rows, k) * Scale(k)
    /\ \A i \in 1..Len(v1_summary_csv) :
          LET m    == v1_summary_csv[i]["Model"]
              rows == SelectSeq(v1_detail_csv, LAMBDA e : e.Model = m)
          IN  \A k \in V1NumericKeys :
                 /\ k \in DOMAIN v1_summary_csv[i]
                 /\ v1_summary_csv[i][k].num * Len(rows)
                       = SumOf(rows, k) * v1_summary_csv[i][k].den

\* C8: the hallucination count of a cell is the number of distinct numbers
\* of the generated text that are absent from the reference set and have at
\* least two digits; for the reference set {300, 1600} and a summary
\* mentioning 300, 1600 and 9999 the recall is 100 and the count is 1.
C8_HallucinationCount ==
    std_status = "done" =>
        \A c \in GenCells : "error" \notin DOMAIN c.result =>
            \A i \in RowsOf(all_evals, c.year, c.model) :
                LET ref == RefNumbers(c.year)
                    sum == extract_numbers(c.result.text)
                IN  /\ all_evals[i].Hallucinations_Count
                          = Cardinality({n \in sum : n \notin ref /\ Len(n) >= 2})
                    /\ (ref = {N300, N1600} /\ sum = {N300, N1600, N9999}) =>
                          /\ all_evals[i].Fact_Recall_Pct = 10000
                          /\ all_evals[i].Hallucinations_Count = 1

\* C8 witness: the scenario itself, with a one-digit number beside it in
\* another run: reference {300, 1600}, summary "300. 1600 9999", count 1.
C8_Witness ==
    /\ std_status = "done"
    /\ \E c \in GenCells :
          /\ RefNumbers(c.year) = {N300, N1600}
          /\ extract_numbers(c.result.text) = {N300, N1600, N9999}
          /\ \E i \in RowsOf(all_evals, c.year, c.model) :
                /\ all_evals[i].Hallucinations_Count = 1
                /\ all_evals[i].Fact_Recall_Pct = 10000

\* C10: a non-error Generation Record whose generated text is empty gets
\* exactly one Evaluation Record, with word count 0, repetition 0, recall 0
\* and hallucination count 0, whatever the reference number set is.
C10_EmptyText ==
    std_status = "done" =>
        \A c \in GenCells :
            ("error" \notin DOMAIN c.result /\ c.result.text = <<>>) =>
                /\ Cardinality(RowsOf(all_evals, c.year, c.model)) = 1
                /\ \A i \in RowsOf(all_evals, c.year, c.model) :
                      /\ all_evals[i].Word_Count = 0
                      /\ all_evals[i].Repetition_Pct = 0
                      /\ all_evals[i].Fact_Recall_Pct = 0
                      /\ all_evals[i].Hallucinations_Count = 0

\* C10 witness: an empty summary scored against a reference set that holds
\* key amounts, and against an empty one.
C10_Witness ==
    /\ std_status = "done"
    /\ \E c \in GenCells :
          /\ "error" \notin DOMAIN c.result
          /\ c.result.text = <<>>
          /\ RefNumbers(c.year) # {}
          /\ RowsOf(all_evals, c.year, c.model) # {}

\* the fields of a result envelope
EnvelopeKeys == {"text", "model", "time_seconds", "tokens_input", "tokens_output"}

\* the key run_all files the k-th backend call under
CallKey(k) ==
    IF ((k - 1) \div Len(GenModels)) + 1 <= Len(structured_data)
    THEN structured_data[((k - 1) \div Len(GenModels)) + 1].curso_academico.s
    ELSE COMBINED

\* C4: run_all never ends on a backend exception; when it has finished it
\* has attempted every cell (one backend call per year record and model,
\* then one per model for the combined report, in order), a call that
\* raised has left {error: message} in its cell, and every year label of
\* the input and the key "combined" hold exactly one entry per configured
\* model, in order, each a result envelope or an error envelope.
C4_FailuresIsolated ==
    /\ gen_pc # "crashed"
    /\ gen_pc = "done" =>
          /\ Len(backend_calls) = (Len(structured_data) + 1) * Len(GenModels)
          /\ \A k \in 1..Len(backend_calls) :
                LET j == ((k - 1) % Len(GenModels)) + 1
                    last == \A k2 \in (k + 1)..Len(backend_calls) : CallKey(k2) # CallKey(k)
                IN  /\ backend_calls[k].request.model = GenModels[j].model_id
                    /\ last =>
                          \E c \in GenCells :
                             /\ c.year = CallKey(k) /\ c.model = GenModels[j].model_id
                             /\ backend_calls[k].raised <=> DOMAIN c.result = {"error"}
          /\ {generated_results[i].year : i \in 1..Len(generated_results)}
                = {structured_data[i].curso_academico.s : i \in 1..Len(structured_data)}
                    \cup {COMBINED}
          /\ \A i \in 1..Len(generated_results) :
                /\ \A i2 \in 1..Len(generated_results) :
                      generated_results[i2].year = generated_results[i].year => i2 = i
                /\ Len(generated_results[i].models) = Len(GenModels)
                /\ \A j \in 1..Len(GenModels) :
                      LET cell == generated_results[i].models[j]
                      IN  /\ cell.model = GenModels[j].model_id
                          /\ \/ DOMAIN cell.result = {"error"}
                             \/ /\ EnvelopeKeys \subseteq DOMAIN cell.result
                                /\ "error" \notin DOMAIN cell.result

\* C4 witness: run_all has finished over two year records although the very
\* first backend call raised; later calls succeeded and the file holds both
\* kinds of envelope.
C4_Witness ==
    /\ gen_pc = "done"
    /\ Len(structured_data) = 2
    /\ backend_calls[1].raised
    /\ \E k \in 2..Len(backend_calls) : ~backend_calls[k].raised
    /\ \E c \in GenCells : DOMAIN c.result = {"error"}
    /\ \E c \in GenCells : "text" \in DOMAIN c.result

\* the monetary fields of a Document Record
MonetaryFields ==
    {"cuantia_renta_fija", "cuantia_residencia", "beca_basica", "cuantia_variable_minima",
     "excelencia_min", "excelencia_max"}

\* a well-formed number of the source locale: digits with '.'/',' separators,
\* at least one digit
WellFormedNumber(s) ==
    /\ s # <<>>
    /\ \A i \in 1..Len(s) : s[i] \in Digits \cup Seps
    /\ \E i \in 1..Len(s) : s[i] \in Digits

\* C5 as stated: every monetary field extract_amounts produces is present
\* and is a string that is a well-formed number or exactly "No detectado",
\* never an empty or digit-free string.
C5_Original ==
    text_out.fn = "extract_amounts" =>
        \A f \in MonetaryFields :
            /\ f \in DOMAIN text_out.amounts
            /\ text_out.amounts[f].t = "str"
            /\ \/ text_out.amounts[f].s = NoDetectado
               \/ WellFormedNumber(text_out.amounts[f].s)

\* the records ejecutar built from a PDF whose text holds nothing any
\* extraction rule looks for
NeutralRecords ==
    {i \in 1..Len(datos_extraidos) :
        \E f \in PdfFiles : f.name = datos_extraidos[i].fichero.s /\ f.text = DocNeutral}

\* C6 as stated: on a text in which none of its patterns match, every
\* extraction rule returns the sentinel "No detectado" (an empty structure or
\* the status sentinel for a nested field, the unknown-year sentinel for the
\* year), so no field of the record holds a made-up value.
C6_Original ==
    \A i \in NeutralRecords :
        LET info == datos_extraidos[i]
        IN  /\ \A f \in MonetaryFields : info[f] = ND
            /\ info.programas_educativos = ND
            /\ info.curso_academico.s \in {NoDetectado, DESCONOCIDO}
            /\ \A f \in {"excelencia_tramos", "umbrales_renta", "umbrales_patrimonio",
                         "requisitos_academicos", "suplementos_insulares",
                         "deducciones_renta", "discapacidad"} :
                    info[f] \in {ND, JDict(<<>>), JList(<<>>)}
            /\ info.plazos_solicitud \in {ND, JDict(<<>>), JDict(<<KV(<<"status">>, ND)>>)}

\* C7 as stated: generar_texto_becas produces a premise, without raising,
\* for every Document Record the extractor has written, sentinel nested
\* fields included, so the hallucination evaluator run on that file does not
\* end in an exception.
C7_Original ==
    /\ \A i \in 1..Len(structured_data) : ~generar_texto_becas(structured_data[i]).raised
    /\ halluc_status # "crashed"

\* C9: calculate_repetition_rate returns exactly 0 (and does not divide by
\* zero) for empty, whitespace-only or missing text and for any text whose
\* lowercased whitespace-delimited tokens are pairwise distinct; otherwise it
\* returns 1 - (distinct lowercased tokens / total tokens).
C9_RepetitionRate ==
    text_out.fn = "calculate_repetition_rate" =>
        LET tokens   == Split(text_in.s)
            n        == Len(tokens)
            distinct == Cardinality({Lower(tokens[i]) : i \in 1..n})
            rate     == text_out.rate
        IN  /\ rate.den > 0
            /\ (text_in.none \/ n = 0) => rate.num = 0
            /\ (n > 0 /\ distinct = n) => rate.num = 0
            /\ n > 0 => rate.num * n = (n - distinct) * rate.den

\* C9 witness: "a A a" has three copies of one lowercased token and the
\* function returned 1 - 1/3.
C9_Witness ==
    /\ text_out.fn = "calculate_repetition_rate"
    /\ text_in.s = <<"a", " ", "A", " ", "a">>
    /\ text_out.rate.num * 3 = 2 * text_out.rate.den

\* an input file of the evaluators is absent
InputAbsent == ~data_exists \/ ~gen_exists

\* C11 as stated: while a required input file (becas_estructuradas.json or
\* resumenes_generados.json) is absent, a stage that has been started has
\* written no output artifact at all (no CSV, no chart, no output directory)
\* and has scored nothing.
C11_Original ==
    InputAbsent =>
        /\ std_status # "idle" =>
              all_evals = <<>> /\ detail_csv = <<>> /\ comparison_csv = <<>>
        /\ v1_status # "unbuilt" =>
              /\ v1_results = <<>> /\ v1_detail_csv = <<>> /\ v1_summary_csv = <<>>
              /\ v1_charts = {} /\ ~v1_output_dir
        /\ halluc_status # "idle" => halluc_scores = <<>>

\* C12: the request generate_deepseek sends carries the sampling temperature
\* (0.3) for every model identifier other than "deepseek-reasoner", and has no
\* temperature parameter at all for "deepseek-reasoner".
C12_TemperatureOmitted ==
    gen_call.fn = "generate_deepseek" =>
        /\ "temperature" \in DOMAIN gen_call.request
              <=> gen_call.request.model # "deepseek-reasoner"
        /\ "temperature" \in DOMAIN gen_call.request
              => gen_call.request.temperature = Temperature

\* C12 witness: generate_deepseek was called for "deepseek-reasoner" and the
\* request it sent has the model, the prompt and max_tokens but no temperature.
C12_Witness ==
    /\ gen_call.fn = "generate_deepseek"
    /\ gen_call.request.model = "deepseek-reasoner"
    /\ DOMAIN gen_call.request = {"model", "prompt", "max_tokens"}

\* C14: every successful backend call, remote or local, returns an envelope
\* with the five fields text, model, time_seconds, tokens_input and
\* tokens_output; it has no other field but the reasoning trace, which is
\* there only when the backend exposed a non-empty one, and never "error".
C14_EnvelopeShape ==
    (gen_call.fn # "none" /\ ~gen_call.response.raised) =>
        /\ EnvelopeKeys \subseteq DOMAIN gen_call.result
        /\ DOMAIN gen_call.result \subseteq EnvelopeKeys \cup {"reasoning_content"}
        /\ "reasoning_content" \in DOMAIN gen_call.result =>
              /\ gen_call.response.reasoning # <<>>
              /\ gen_call.result.reasoning_content = gen_call.response.reasoning
        /\ "error" \notin DOMAIN gen_call.result

\* C14 witness: a remote call whose backend exposed a reasoning trace
\* returned the five fields and the trace.
C14_Witness ==
    /\ gen_call.fn = "generate_deepseek"
    /\ ~gen_call.response.raised
    /\ gen_call.response.reasoning = <<"think">>
    /\ DOMAIN gen_call.result = EnvelopeKeys \cup {"reasoning_content"}

\* C13: round trip. The numbers extract_numbers finds in the premise line
\* that embeds a monetary value ("Beca básica: 300 euros.") are exactly the
\* numbers it finds in the value itself, for every label and every value.
C13_RoundTrip ==
    text_out.fn = "premise_line" => text_out.line_nums = text_out.value_nums

\* C13 witness: the value "1.111" was written into a line, and both the line
\* and the value yield the one number 1111.
C13_Witness ==
    /\ text_out.fn = "premise_line"
    /\ text_in.s = <<"1", ".", "1", "1", "1">>
    /\ text_out.line_nums = {<<"1", "1", "1", "1">>}
    /\ text_out.value_nums = {<<"1", "1", "1", "1">>}

\* C15 as stated: every (year, model) cell of the generated-summaries mapping
\* without an error marker has exactly one Evaluation Record in each
\* evaluator once that evaluator has run, the cells under "combined" and
\* under a year label no Document Record carries included.
C15_Original ==
    \A c \in GenCells : "error" \notin DOMAIN c.result =>
        /\ std_status = "done" =>
              Cardinality(RowsOf(all_evals, c.year, c.model)) = 1
        /\ (v1_runs = 1 /\ v1_status \in {"done", "crashed"}) =>
              Cardinality(RowsOf(v1_results, c.year, c.model)) = 1

\* C16 as stated: after any sequence of evaluator runs the detail and summary
\* outputs hold exactly the rows of the latest run over the two input files:
\* for the standard evaluator the rows of one pass over the files, and for
\* the NLGPerformanceAudit instance the rows of one run_evaluation, with no
\* row carried over from an earlier call.
C16_Original ==
    /\ std_status = "done" =>
          LET evals == AllEvals(structured_data, generated_results)
          IN  /\ all_evals = evals
              /\ evals # <<>> =>
                    detail_csv = evals /\ comparison_csv = ComparisonResults(evals)
    /\ v1_status = "done" =>
          LET rows == V1NewEntries(structured_data, generated_results, has_nlp)
          IN  /\ v1_results = rows
              /\ v1_detail_csv = rows
              /\ v1_summary_csv = V1Summary(rows)

\* the PDFs of the folder that fitz can open, in the order glob lists them
ReadablePdfs == SelectSeq(pdf_folder, LAMBDA f : f.readable)

\* C17 as stated: after any sequence of ejecutar calls on one instance, the
\* persisted array holds exactly one Document Record per successfully
\* processed PDF of the folder, in order, none duplicated from an earlier call.
C17_Original ==
    (ext_pc = "idle" /\ ext_runs > 0 /\ folder_exists) =>
        /\ Len(structured_data) = Len(ReadablePdfs)
        /\ \A i \in 1..Len(structured_data) :
              i <= Len(ReadablePdfs) => structured_data[i].fichero.s = ReadablePdfs[i].name

\* the rows under "tabla" in a result of extract_thresholds, <<>> without one
TablaOf(result) ==
    IF result.t = "dict"
          /\ \E k \in 1..Len(result.items) : result.items[k].k = <<"tabla">>
    THEN LET k == CHOOSE k \in 1..Len(result.items) : result.items[k].k = <<"tabla">>
         IN  result.items[k].v.items
    ELSE <<>>

\* the entry that row r of the table text stands for
ExpectedRow(rows, r) ==
    TableRow(rows[r].miembros, AmountCell(r, 1), AmountCell(r, 2),
             IF rows[r].ncells >= 3 THEN AmountCell(r, 3) ELSE <<"N/A">>)

ThresholdsCalled == text_out.fn = "extract_thresholds"

\* C18 as stated: in the row-table parse, in both layouts, a row whose member
\* count exceeds 20 is discarded, and a row whose member count does not
\* exceed 20, exactly 20 included, is kept; here on a table of one row.
C18_Original ==
    (ThresholdsCalled /\ Len(text_in.rows) = 1 /\ text_in.rows[1].ncells >= 2) =>
        LET tabla == TablaOf(text_out.result)
        IN  IF StrToInt(text_in.rows[1].miembros) > 20
            THEN tabla = <<>>
            ELSE tabla = <<ExpectedRow(text_in.rows, 1)>>

\* a line of digits whose value is below the bound
IsBareSmall(line) == IsDigitStr(line) /\ StrToInt(line) < 20

\* a line of digits and dots
IsAmountLine(line) == line # <<>> /\ \A k \in 1..Len(line) : line[k] \in Digits \cup {"."}

\* the number of consecutive amount lines from line i on
RECURSIVE AmountRun(_, _)
AmountRun(lines, i) ==
    IF i <= Len(lines) /\ IsAmountLine(lines[i]) THEN 1 + AmountRun(lines, i + 1) ELSE 0

CellLayout(rows) == \A r \in 1..Len(rows) : rows[r].layout = "cells"

DistinctCounts(rows) ==
    \A r, q \in 1..Len(rows) : rows[r].miembros = rows[q].miembros => r = q

\* C19 as stated: in the cell-per-line layout every line holding a bare small
\* integer yields no row when fewer than two amount lines follow it, a row
\* with umbral_3 = "N/A" when exactly two follow it, and a row of the first
\* three when three or more follow it.
C19_Original ==
    (ThresholdsCalled /\ CellLayout(text_in.rows) /\ DistinctCounts(text_in.rows)) =>
        LET lines == TableLines(text_in.rows)
            tabla == TablaOf(text_out.result)
            Entries == {tabla[k] : k \in 1..Len(tabla)}
        IN  \A i \in 1..Len(lines) :
                IsBareSmall(lines[i]) =>
                    LET n == AmountRun(lines, i + 1)
                    IN  IF n < 2
                        THEN \A e \in Entries : e.items[1].v.s # lines[i]
                        ELSE IF n = 2
                        THEN TableRow(lines[i], lines[i + 1], lines[i + 2], <<"N/A">>)
                                \in Entries
                        ELSE TableRow(lines[i], lines[i + 1], lines[i + 2], lines[i + 3])
                                \in Entries

\* a table of rows the parse accepts one by one: two or three amounts, a
\* member count below the bound, one layout throughout
WellFormedTable(rows) ==
    /\ rows # <<>>
    /\ \A r \in 1..Len(rows) :
          /\ rows[r].ncells >= 2
          /\ StrToInt(rows[r].miembros) < 20
          /\ rows[r].layout = rows[1].layout

\* C20 as stated: a threshold table of N rows, in either layout, gives a
\* "tabla" of exactly N entries in document order, each with the member count
\* and the amounts of its own row.
C20_Original ==
    (ThresholdsCalled /\ WellFormedTable(text_in.rows)) =>
        TablaOf(text_out.result)
            = [r \in 1..Len(text_in.rows) |-> ExpectedRow(text_in.rows, r)]

\* the window of n symbols of s from position i
Window(s, i, n) == SubSeq(s, i, i + n - 1)

\* "20YY-20YY" and "20YY-YY" as plain shapes of a word
IsFullSpan(w) ==
    /\ Len(w) = 9
    /\ w[1] = "2" /\ w[2] = "0" /\ w[3] \in Digits /\ w[4] \in Digits /\ w[5] = "-"
    /\ w[6] = "2" /\ w[7] = "0" /\ w[8] \in Digits /\ w[9] \in Digits

IsShortSpan(w) ==
    /\ Len(w) = 7
    /\ w[1] = "2" /\ w[2] = "0" /\ w[3] \in Digits /\ w[4] \in Digits /\ w[5] = "-"
    /\ w[6] \in Digits /\ w[7] \in Digits

FullAt(s)  == {i \in 1..Len(s) : i + 8 <= Len(s) /\ IsFullSpan(Window(s, i, 9))}
ShortAt(s) == {i \in 1..Len(s) : i + 6 <= Len(s) /\ IsShortSpan(Window(s, i, 7))}

\* the least element of a non-empty set of positions
LeastOf(S) == CHOOSE i \in S : \A j \in S : i <= j

YearCalled == text_out.fn = "extract_academic_year"

\* C21: extract_academic_year returns the year of the document header
\* whatever the filename is; without one the first full "20YY-20YY" of the
\* filename; without one the first short "20YY-YY" of the filename expanded
\* to "20YY-20YY"; and otherwise "Desconocido".
C21_YearPriority ==
    YearCalled =>
        LET f == text_in.filename
        IN  text_out.year =
               IF text_in.header # <<>> THEN text_in.header
               ELSE IF FullAt(f) # {} THEN Window(f, LeastOf(FullAt(f)), 9)
               ELSE IF ShortAt(f) # {}
               THEN LET w == Window(f, LeastOf(ShortAt(f)), 7)
                    IN  <<"2", "0", w[3], w[4], "-", "2", "0", w[6], w[7]>>
               ELSE <<"Desconocido">>

\* a header year was returned although the filename carries another year
C21_Witness ==
    /\ YearCalled
    /\ text_in.header = Y2021
    /\ FullAt(text_in.filename) # {}
    /\ text_out.year = Y2021

\* the numbers of every field of record i of the Document Records
NumbersOfRecord(data, i) == UNION {extract_numbers(PyStr(data[i][k])) : k \in DOMAIN data[i]}

\* the reference set of a key: every record for "combined", the year's
\* record (the last one carrying the label) for a year, nothing without one
ReferenceSet(data, key) ==
    LET recs == {i \in 1..Len(data) : data[i].curso_academico.s = key}
    IN  IF key = COMBINED THEN UNION {NumbersOfRecord(data, i) : i \in 1..Len(data)}
        ELSE IF recs = {} THEN {}
        ELSE NumbersOfRecord(data, CHOOSE i \in recs : \A j \in recs : j <= i)

\* the Evaluation Records of one key scored against a reference set
ScoredAgainst(y, reference) ==
    LET cells == SelectSeq(y.models, LAMBDA m : "error" \notin DOMAIN m.result)
    IN  [i \in 1..Len(cells) |-> EvalEntry(y.year, cells[i].model, cells[i].result, reference)]

\* C22: the standard evaluator scores the key "combined" against the union
\* of the numbers of every field of every Document Record, and a year key
\* against the numbers of that year's Document Record only, the empty set
\* when no record has the year.
C22_ReferenceSet ==
    std_status = "done" =>
        all_evals = Flatten([i \in 1..Len(generated_results) |->
                                ScoredAgainst(generated_results[i],
                                              ReferenceSet(structured_data,
                                                           generated_results[i].year))])

\* a run that scored "combined" and a year key whose reference sets differ
C22_Witness ==
    /\ std_status = "done"
    /\ \E i, j \in 1..Len(generated_results) :
          /\ generated_results[i].year = COMBINED
          /\ generated_results[j].year # COMBINED
          /\ ScoredAgainst(generated_results[i], {}) # <<>>
          /\ ScoredAgainst(generated_results[j], {}) # <<>>
          /\ ReferenceSet(structured_data, COMBINED)
                # ReferenceSet(structured_data, generated_results[j].year)
          /\ ScoredAgainst(generated_results[j], ReferenceSet(structured_data, COMBINED))
                # ScoredAgainst(generated_results[j],
                                ReferenceSet(structured_data, generated_results[j].year))

\* C23 as stated: in every batch over PDF files a file that cannot be opened
\* does not stop the batch: once the batch is over, the output holds the
\* result of every file of the folder that can be opened, for ejecutar of
\* extractor_becas.py and for the loop of extract_all_text.py alike.
C23_Original ==
    /\ (ext_pc = "idle" /\ ext_runs = 1 /\ folder_exists) =>
          /\ data_exists
          /\ Len(structured_data) = Len(ReadablePdfs)
          /\ \A i \in 1..Len(ReadablePdfs) :
                i <= Len(structured_data) => structured_data[i].fichero.s = ReadablePdfs[i].name
    /\ (dump_pc \in {"done", "crashed"} /\ folder_exists) =>
          {t.name : t \in txt_files}
              = {TxtName(ReadablePdfs[i].name) : i \in 1..Len(ReadablePdfs)}

\* the digits of a token, in order
DigitsOf(tok) == SelectSeq(tok, LAMBDA c : c \in Digits)

NumbersCalled == text_out.fn \in {"extract_numbers", "_extract_numbers"}

\* C24: every element extract_numbers returns is a non-empty string of
\* digits; an amount written "1600", "1.600" or "1,600", also when sentence
\* punctuation follows it, yields the one element "1600"; every element is
\* the digits of a token, so a token of separators alone yields none.
C24_SeparatorsStripped ==
    NumbersCalled =>
        LET toks == {text_in.tokens[i] : i \in 1..Len(text_in.tokens)}
        IN  /\ \A n \in text_out.nums : n # <<>> /\ \A k \in 1..Len(n) : n[k] \in Digits
            /\ \A tok \in toks :
                  (\E w \in Writings1600, p \in SentencePunctuation : tok = w \o p)
                      => T1600plain \in text_out.nums
            /\ text_out.nums \subseteq {DigitsOf(tok) : tok \in {t \in toks : DigitsOf(t) # <<>>}}

\* the amount written with a comma and followed by a period, beside a token
\* of separators alone, gave the one element "1600"
C24_Witness ==
    /\ NumbersCalled
    /\ text_in.tokens = <<T1600comma \o <<".">>, <<".", ".", ",">>>>
    /\ text_out.nums = {T1600plain}

\* a text with every run of newlines turned into one space, read from its end
RECURSIVE RunsToSpace(_)
RunsToSpace(s) ==
    IF s = <<>> THEN <<>>
    ELSE LET front == SubSeq(s, 1, Len(s) - 1)
             last  == s[Len(s)]
         IN  IF last # "\n" THEN Append(RunsToSpace(front), last)
             ELSE IF front # <<>> /\ front[Len(front)] = "\n" THEN RunsToSpace(front)
             ELSE Append(RunsToSpace(front), " ")

\* a text without its leading and trailing blanks
RECURSIVE TrimBlanks(_)
TrimBlanks(s) ==
    IF s = <<>> THEN <<>>
    ELSE IF s[1] \in {" ", "\n"} THEN TrimBlanks(Tail(s))
    ELSE IF s[Len(s)] \in {" ", "\n"} THEN TrimBlanks(SubSeq(s, 1, Len(s) - 1))
    ELSE s

CleanCalled == text_out.fn = "limpiar_resumen"

\* C25: what limpiar_resumen returns has no asterisk, no newline and no
\* blank at either end; it is the text without asterisks, every run of
\* newlines replaced by one space, trimmed; cleaning it again changes
\* nothing; and empty or missing input gives the empty string.
C25_Cleaner ==
    CleanCalled =>
        /\ \A k \in 1..Len(text_out.clean) : text_out.clean[k] \notin {"*", "\n"}
        /\ text_out.clean # <<>> =>
              /\ text_out.clean[1] \notin {" ", "\n"}
              /\ text_out.clean[Len(text_out.clean)] \notin {" ", "\n"}
        /\ text_out.times = 1 =>
              text_out.clean
                  = TrimBlanks(RunsToSpace(SelectSeq(text_in.s, LAMBDA c : c # "*")))
        /\ text_out.times = 2 => text_out.clean = text_out.first
        /\ (text_in.none \/ text_in.s = <<>>) => text_out.clean = <<>>

\* a summary with asterisks and a run of two newlines between two words was
\* cleaned, and cleaned again
C25_Witness ==
    /\ CleanCalled
    /\ text_out.times = 2
    /\ text_in.s = <<"*", "a", "\n", "\n", "a">>
    /\ text_out.clean = <<"a", " ", "a">>

\* a pass of the loop moves the index forward: by one, or past the
\* member-count line and the two or three amount lines its row was read from
PassAdvances ==
    (text_out.fn = "table_loop" /\ text_out'.fn = "table_loop") =>
        \/ text_out'.i = text_out.i + 1 /\ Len(text_out'.read) <= Len(text_out.read) + 1
        \/ /\ Len(text_out'.read) = Len(text_out.read) + 1
           /\ LET r == text_out'.read[Len(text_out'.read)]
              IN  /\ Cardinality(r) \in {3, 4}
                  /\ r = text_out.i..(text_out'.i - 1)

\* the rows were read from lines of the list, no line by two rows
ReadOnce ==
    text_out.fn \in {"table_loop", "table_done"} =>
        /\ Len(text_out.read) = Len(text_out.table_data)
        /\ \A a, b \in 1..Len(text_out.read) :
              /\ text_out.read[a] \subseteq 1..Len(text_in.lines)
              /\ a # b => text_out.read[a] \cap text_out.read[b] = {}

\* C26: the row-table loop of extract_thresholds ends on every input: each
\* pass moves the line index forward by at least one, by one or past the
\* member-count line and the amount lines it consumed, never backwards; no
\* line is consumed by two rows; and the loop is left in the end.
C26_LoopTerminates ==
    /\ [][PassAdvances /\ (text_out.fn = "table_loop" => text_out'.i >= text_out.i)]_vars
    /\ []ReadOnce
    /\ <>(text_out.fn = "table_done")

\* the loop was left after a cell-per-line row of three amounts, the last
\* two of them bare integers, and a row in one line
C26_Witness ==
    /\ text_out.fn = "table_done"
    /\ text_in.lines = <<<<"1">>, <<"8", ".", "1", "1", "0">>, <<"1", "9">>, <<"1">>>>
    /\ text_out.read = <<1..4>>
    /\ text_out.i = 5

ScoreCalled == text_out.fn \in {"standard", "v1"}

\* C27: in one Evaluation Record, of either evaluator, the recalled numbers
\* and the hallucinated numbers are subsets of the numbers of the summary
\* and have no number in common.
C27_RecalledHallucinatedDisjoint ==
    ScoreCalled =>
        /\ text_out.recalled_nums \subseteq text_in.summary_numbers
        /\ text_out.hallucinated_nums \subseteq text_in.summary_numbers
        /\ text_out.recalled_nums \cap text_out.hallucinated_nums = {}

\* a summary with a recalled number and a hallucinated one
C27_Witness ==
    /\ text_out.fn = "standard"
    /\ text_out.recalled_nums = {<<"3", "0", "0">>}
    /\ text_out.hallucinated_nums = {<<"1", "6", "0", "0">>}

\* the ranges of a scored cell but for the repetition percentage, in
\* hundredths of a percent: every percentage from 0 to 100, no more
\* hallucinations than numbers in the summary, a rate 0 on an empty denominator
RatesInRange ==
    /\ text_out.fn = "standard" =>
          /\ text_out.Fact_Recall_Pct \in 0..10000
          /\ text_out.Hallucinations_Count \in 0..Cardinality(text_in.summary_numbers)
          /\ text_out.Repetition_Pct >= 0
          /\ {n \in text_in.target_facts : Len(n) >= 3} = {} => text_out.Fact_Recall_Pct = 0
          /\ text_in.words = 0 => text_out.Repetition_Pct = 0
    /\ text_out.fn = "v1" =>
          /\ text_out.Recall_Pct \in 0..10000
          /\ text_out.Halluc_Rate_Pct \in 0..10000
          /\ text_in.target_facts = {} => text_out.Recall_Pct = 0
          /\ text_in.summary_numbers = {} => text_out.Halluc_Rate_Pct = 0

\* C28 as stated: every Evaluation Record has its percentages in range, the
\* repetition percentage of the standard evaluator from 0 to below 100.
C28_Original ==
    /\ RatesInRange
    /\ text_out.fn = "standard" => text_out.Repetition_Pct < 10000

\* C28 amended: every Evaluation Record has its percentages in range, the
\* repetition percentage of the standard evaluator from 0 to 100; it is 100,
\* by rounding, exactly when the summary has 20,000 words or more for each
\* distinct word.
C28_RatesInRange ==
    /\ RatesInRange
    /\ text_out.fn = "standard" =>
          /\ text_out.Repetition_Pct <= 10000
          /\ text_out.Repetition_Pct = 10000
                <=> (text_in.words > 0 /\ text_in.words >= 20000 * text_in.unique)

\* a summary of 20,001 words, all the same, was scored
C28_Witness ==
    /\ text_out.fn = "standard"
    /\ text_in.words = LongSummaryWords /\ text_in.unique = 1
    /\ text_out.Repetition_Pct = 10000

\* C29 as stated: with several Document Records under one year label the
\* last one in input order is the year's reference in every evaluator: the
\* rows of the standard evaluator are scored against it, and the premise of
\* the hallucination evaluator is built from it.
C29_Original ==
    /\ std_status = "done" =>
          \A i \in 1..Len(generated_results) :
              (generated_results[i].year # COMBINED
                    /\ HasYear(structured_data, generated_results[i].year)) =>
                  \A k \in 1..Len(all_evals) :
                      all_evals[k].Year = generated_results[i].year =>
                          all_evals[k].Fact_Recall_Pct
                              = FactRecallPct(
                                    extract_numbers(
                                        Get(CellOfModel(generated_results[i].models,
                                                        all_evals[k].Model), "text", <<>>)),
                                    RecordNumbers(LastOfYear(structured_data,
                                                             generated_results[i].year)))
    /\ \A i \in 1..Len(halluc_scores) :
          halluc_scores[i].premisa
              = generar_texto_becas(
                    LastOfYear(structured_data, halluc_scores[i].year)).texto

\* the keys of a dict result, none for any other value
KeysOf(result) ==
    IF result.t = "dict" THEN {result.items[k].k : k \in 1..Len(result.items)} ELSE {}

UmbralKeys == {K_Umbral1, K_Umbral2, K_Umbral3}

\* the text opens with the heading of the income-threshold article
HeadingPresent ==
    /\ Len(text_in.heading) >= 2
    /\ text_in.heading[Len(text_in.heading) - 1] = "Umbrales de renta"
    /\ SubSeq(text_in.heading, 1, Len(text_in.heading) - 2)
          \in {<<"Artículo", " ", "1", "9", ".", " ">>, <<"Artículo", " ", "9", ".", " ">>}

\* C30: extract_thresholds never returns both threshold encodings: its
\* result holds the key "tabla" only when it holds no "Umbral N" key, and
\* the table is returned only when no keyed tier had a limit; the result is
\* the string "No detectado" only when the heading of the income-threshold
\* article is not in the text, and a dict whenever the heading is there.
C30_OneEncoding ==
    ThresholdsCalled =>
        /\ <<"tabla">> \in KeysOf(text_out.result)
              => /\ KeysOf(text_out.result) \cap UmbralKeys = {}
                 /\ \A k \in 1..Len(text_in.parts) : text_in.parts[k].kind # "tier"
        /\ text_out.result = JStr(NoDetectado) => ~HeadingPresent
        /\ HeadingPresent => text_out.result.t = "dict"

\* a section holding a keyed tier and table rows: only the tier is returned
C30_Witness ==
    /\ ThresholdsCalled
    /\ HeadingPresent
    /\ \E k \in 1..Len(text_in.parts) : text_in.parts[k].kind = "tier"
    /\ \E k \in 1..Len(text_in.parts) : text_in.parts[k].kind = "row"
    /\ KeysOf(text_out.result) \cap UmbralKeys # {}
    /\ <<"tabla">> \notin KeysOf(text_out.result)

=============================================================================
